---- MODULE Spec2Model ----
(***************************************************************************)
(* Attendance ledger, account lockout and check-out metrics of the         *)
(* face-recognition attendance backend.                                    *)
(*                                                                         *)
(* Times are JavaScript Date values: milliseconds, counted here from a     *)
(* local midnight.  NoTime stands for an absent (undefined) Date.  The      *)
(* attendance collection is a bag of documents: the code never depends on  *)
(* the order in which documents were inserted.                             *)
(*                                                                         *)
(* The specifications share the variables:                                 *)
(*   Spec          POST /api/attendance/mark, one request at a time        *)
(*   SpecRace      the same handler as two concurrently running requests   *)
(*   SpecCheckOut  Attendance.markCheckOut applied to one record           *)
(*   SpecAuth      User.findByCredentials on one account store             *)
(*   SpecAdmin     administration of users by admins and super-admins      *)
(*   SpecRecords   administration of attendance records, listings, reports *)
(*   SpecOrg       the organizations collection and its invite codes       *)
(*   SpecReset     forgotPassword and resetPassword                        *)
(*   SpecAuthRace  User.findByCredentials as two concurrent requests       *)
(*   SpecProfile   getUserProfile and updateUserProfile                    *)
(*   SpecAadhaar   registration with Aadhaar numbers, OTP linking, unlink  *)
(*   SpecRegister  public self-registration and approval by admins         *)
(***************************************************************************)
EXTENDS Integers, Sequences, FiniteSets, Bags, TLC

VARIABLES
  now,            \* the wall clock, Date.now()
  isApproved,     \* User.isApproved of each user
  isActive,       \* User.isActive of each user
  loginAttempts,  \* User.loginAttempts of each user
  lockUntil,      \* User.lockUntil of each user, NoTime when unset
  lastLogin,      \* User.lastLogin of each user
  events,         \* the attendances collection
  resp,           \* the response to the latest request
  pc,             \* where each concurrently running request stands
  req,            \* the body and caller of each running request
  found,          \* what each running request has read from the database
  doc,            \* the document each running request is about to save
  rec,            \* the record markCheckOut is applied to
  streak,         \* wrong passwords in a row since the last successful login
  fifthAt,        \* the instant of the latest fifth wrong password in a row
  cleared,        \* the failures the latest findByCredentials call cleared
  role,           \* User.role of each user
  organization,   \* User.organization of each user, "none" when unset
  faceEnrolled,   \* User.faceEnrolled of each user
  listed,         \* the documents the latest listing or report was computed from
  orgs,           \* the organizations collection
  inserted,       \* how many organizations have been inserted so far
  password,       \* User.password of each user
  resetPasswordToken,    \* User.resetPasswordToken of each user, the stored hash
  resetPasswordExpires,  \* User.resetPasswordExpires of each user
  issued,         \* the instant at which each reset token was issued, in order
  used,           \* the reset tokens a successful resetPassword has consumed
  mail,           \* what the email service did for the latest request
  department,     \* User.department of each user
  aadhaarNumber,  \* User.aadhaarNumber of each user, "none" when unset
  aadhaarVerified,  \* User.aadhaarVerified of each user
  otpStore        \* the OTP request stored for each Aadhaar number

\* the user fields and collections of the tenant directory
directoryVars == <<role, organization, faceEnrolled, listed, orgs, inserted>>

\* the fields of the password reset
tokenVars == <<password, resetPasswordToken, resetPasswordExpires, issued, used>>

recoveryVars == <<tokenVars, mail>>

\* the profile and the Aadhaar link of the users, and the OTP requests
profileVars == <<department, aadhaarNumber, aadhaarVerified, otpStore>>

vars == <<now, isApproved, isActive, loginAttempts, lockUntil, lastLogin,
          events, resp, pc, req, found, doc, rec, streak, fifthAt, cleared,
          directoryVars, recoveryVars, profileVars>>

----------------------------------------------------------------------------
(* Bounds of the model *)

MaxDay == 1
MaxEvents == 2
MaxRaceEvents == 2
MaxAuthHalfHours == 7
MaxCheckOutCalls == 2
MaxOrgs == 3

----------------------------------------------------------------------------
(* Time *)

NoTime == -1

MsPerMinute == 1000 * 60

DayMs == 24 * 60 * 60 * 1000

\* new Date(y, m, d) of a Date: the local midnight that starts its day
StartOfDay(t) == (t \div DayMs) * DayMs

\* instants at which the wall clock is observed: 09:00 and 18:00 of each day
DayOffsets == {9 * 60 * MsPerMinute, 18 * 60 * MsPerMinute}

Instants == {d * DayMs + o : d \in 0..MaxDay, o \in DayOffsets}

FirstInstant == CHOOSE t \in Instants : \A s \in Instants : t <= s

----------------------------------------------------------------------------
(* Users *)

Users == {"u1", "u2"}

\* UserSchema.virtual('isLocked')
isLocked_Mut(u) == lockUntil[u] # NoTime /\ lockUntil[u] < now

isLocked(u) == lockUntil[u] # NoTime /\ lockUntil[u] > now

----------------------------------------------------------------------------
(* Attendance events *)

Types == {"check-in", "check-out"}

\* new Attendance({...}) followed by save(): schema defaults and the
\* pre('save') hook that derives date from checkInTime
NewAttendance(u, type, t) ==
  [user |-> u, type |-> type, checkInTime |-> t,
   checkOutTime |-> IF type = "check-out" THEN t ELSE NoTime,
   date |-> StartOfDay(t),
   workingHours |-> 0, breakTime |-> 0, overtime |-> 0]

\* Attendance.find({user, checkInTime: {$gte: startOfDay, $lt: endOfDay}})
TodayAttendance(evs, u, today) ==
  LET startOfDay == StartOfDay(today)
      endOfDay == startOfDay + DayMs
  IN {e \in BagToSet(evs) : /\ e.user = u
                            /\ e.checkInTime >= startOfDay
                            /\ e.checkInTime < endOfDay}

\* .sort({checkInTime: -1}) then .find(att => att.type === type): the
\* checkInTime of the first record of that type in descending order, or
\* NoTime when there is none (find returns undefined)
LastOfType(existing, type) ==
  LET same == {e \in existing : e.type = type}
  IN IF same = {} THEN NoTime
     ELSE LET first == CHOOSE e \in same :
                         \A f \in same : f.checkInTime <= e.checkInTime
          IN first.checkInTime

\* line 558: lastCheckIn && (!lastCheckOut || lastCheckOut < lastCheckIn)
CheckInBlocked_Mut(lastCheckIn, lastCheckOut) ==
  lastCheckIn # NoTime /\ lastCheckOut # NoTime /\ lastCheckOut < lastCheckIn

CheckInBlocked(lastCheckIn, lastCheckOut) ==
  lastCheckIn # NoTime /\ (lastCheckOut = NoTime \/ lastCheckOut < lastCheckIn)

\* line 568: !lastCheckIn || (lastCheckOut && lastCheckOut > lastCheckIn)
CheckOutBlocked_Mut(lastCheckIn, lastCheckOut) ==
  lastCheckOut # NoTime /\ lastCheckOut > lastCheckIn

CheckOutBlocked(lastCheckIn, lastCheckOut) ==
  lastCheckIn = NoTime \/ (lastCheckOut # NoTime /\ lastCheckOut > lastCheckIn)

\* the validation of lines 553-574 on the records read for today
Validate(existing, type) ==
  LET lastCheckIn == LastOfType(existing, "check-in")
      lastCheckOut == LastOfType(existing, "check-out")
  IN IF type = "check-in" /\ CheckInBlocked(lastCheckIn, lastCheckOut)
       THEN "AlreadyCheckedIn"
     ELSE IF type = "check-out" /\ CheckOutBlocked(lastCheckIn, lastCheckOut)
       THEN "NoOpenCheckIn"
     ELSE "none"

\* the middleware of the route in front of the handler, then the handler's
\* own gate: authenticate (isActive, isLocked), requireApproval, and lines
\* 529-541 of markAttendance
Gate_Mut(u) ==
  IF isLocked(u) THEN [status |-> 401, error |-> "AccountLocked", by |-> "authenticate"]
  ELSE IF ~isApproved[u] THEN [status |-> 403, error |-> "NotApproved", by |-> "requireApproval"]
  ELSE [status |-> 200, error |-> "none", by |-> "markAttendance"]

Gate(u) ==
  IF ~isActive[u] THEN [status |-> 401, error |-> "AccountInactive", by |-> "authenticate"]
  ELSE IF isLocked(u) THEN [status |-> 401, error |-> "AccountLocked", by |-> "authenticate"]
  ELSE IF ~isApproved[u] THEN [status |-> 403, error |-> "NotApproved", by |-> "requireApproval"]
  ELSE [status |-> 200, error |-> "none", by |-> "markAttendance"]

Reply(op, u, type, status, error, by) ==
  [op |-> op, user |-> u, type |-> type, status |-> status, error |-> error, by |-> by]

NoReply == Reply("none", "none", "none", 0, "none", "none")

\* line 581: isOffline && offlineTimestamp ? new Date(offlineTimestamp) : new Date()
EventTime(isOffline, offlineTimestamp) ==
  IF isOffline /\ offlineTimestamp # NoTime THEN offlineTimestamp ELSE now

\* POST /api/attendance/mark as one uninterrupted request
MarkAttendance(u, type, isOffline, offlineTimestamp) ==
  LET gate == Gate(u)
      existingAttendance == TodayAttendance(events, u, now)
      verdict == Validate(existingAttendance, type)
  IN /\ IF gate.error # "none"
          THEN /\ resp' = Reply("markAttendance", u, type, gate.status, gate.error, gate.by)
               /\ UNCHANGED <<events, lastLogin>>
        ELSE IF verdict # "none"
          THEN /\ resp' = Reply("markAttendance", u, type, 400, verdict, "markAttendance")
               /\ UNCHANGED <<events, lastLogin>>
        ELSE /\ BagCardinality(events) < MaxEvents
             /\ events' = events (+) SetToBag(
                            {NewAttendance(u, type, EventTime(isOffline, offlineTimestamp))})
             /\ lastLogin' = [lastLogin EXCEPT ![u] = now]
             /\ resp' = Reply("markAttendance", u, type, 201, "none", "markAttendance")
     /\ UNCHANGED <<now, isApproved, isActive, loginAttempts, lockUntil,
                    pc, req, found, doc, rec, streak, fifthAt, cleared,
                 directoryVars, recoveryVars, profileVars>>

\* the values of offlineTimestamp a request is tried with: absent or any
\* instant when the request is flagged offline, absent or one (ignored)
\* instant when it is not
OfflineTimestamps(isOffline, instants) ==
  {NoTime} \cup (IF isOffline THEN instants ELSE {FirstInstant})

\* the instant the wall clock shows next
NextInstant(instants) ==
  CHOOSE t \in instants : t > now /\ \A s \in instants : s > now => t <= s

\* the wall clock moves on
Tick ==
  /\ \E t \in Instants : t > now
  /\ now' = NextInstant(Instants)
  /\ UNCHANGED <<isApproved, isActive, loginAttempts, lockUntil, lastLogin,
                 events, resp, pc, req, found, doc, rec, streak, fifthAt, cleared,
                 directoryVars, recoveryVars, profileVars>>

Procs == {"p1", "p2"}

NoDoc == [user |-> "none", type |-> "none", checkInTime |-> NoTime,
          checkOutTime |-> NoTime, date |-> NoTime,
          workingHours |-> 0, breakTime |-> 0, overtime |-> 0]

NoReq == [user |-> "none", type |-> "none", isOffline |-> FALSE,
          offlineTimestamp |-> NoTime]

NoRec == [checkInTime |-> NoTime, checkOutTime |-> NoTime, type |-> "none",
          workingHours |-> 0, breakTime |-> 0, overtime |-> 0, calls |-> 0]

\* variables a specification does not use stay at these values
IdleRace == /\ pc = [p \in Procs |-> "idle"]
            /\ req = [p \in Procs |-> NoReq]
            /\ found = [p \in Procs |-> {}]
            /\ doc = [p \in Procs |-> NoDoc]

IdleAuth == /\ loginAttempts = [u \in Users |-> 0]
            /\ lockUntil = [u \in Users |-> NoTime]
            /\ streak = [u \in Users |-> 0]
            /\ fifthAt = [u \in Users |-> NoTime]
            /\ cleared = 0

\* no listing or report has been answered yet
NoListing == [op |-> "none", caller |-> "none", role |-> "none", organization |-> "none",
              users |-> {}, events |-> {}]

IdleDirectory == /\ role = [u \in Users |-> "employee"]
                 /\ organization = [u \in Users |-> "orgA"]
                 /\ faceEnrolled = [u \in Users |-> TRUE]
                 /\ listed = NoListing
                 /\ orgs = {}
                 /\ inserted = 0

\* an unset resetPasswordToken
NoToken == <<"none">>

\* the pre('save') hook stores bcrypt.hash(password, salt)
bcrypt(pw) == <<"bcrypt", pw>>

IdleRecovery == /\ password = [u \in Users |-> bcrypt("secret1")]
                /\ resetPasswordToken = [u \in Users |-> NoToken]
                /\ resetPasswordExpires = [u \in Users |-> NoTime]
                /\ issued = <<>>
                /\ used = {}
                /\ mail = "none"

\* no Aadhaar number is linked and no OTP has been requested
NoOtp == [userId |-> "none", timestamp |-> NoTime, attempts |-> 0]

AadhaarNumbers == {"123412341234", "987698769876"}

IdleProfile == /\ department = [u \in Users |-> "Sales"]
               /\ aadhaarNumber = [u \in Users |-> "none"]
               /\ aadhaarVerified = [u \in Users |-> FALSE]
               /\ otpStore = [a \in AadhaarNumbers |-> NoOtp]

Init ==
  /\ now = FirstInstant
  /\ isApproved \in [Users -> BOOLEAN]
  /\ isActive \in [Users -> BOOLEAN]
  /\ lastLogin = [u \in Users |-> NoTime]
  /\ events = EmptyBag
  /\ resp = NoReply
  /\ rec = NoRec
  /\ IdleRace
  /\ IdleAuth
  /\ IdleDirectory
  /\ IdleRecovery
  /\ IdleProfile

Next ==
  \/ \E u \in Users, type \in Types, isOffline \in BOOLEAN :
       \E offlineTimestamp \in OfflineTimestamps(isOffline, Instants) :
          MarkAttendance(u, type, isOffline, offlineTimestamp)
  \/ Tick

Spec == Init /\ [][Next]_vars

----------------------------------------------------------------------------
(* markAttendance as concurrently running requests.  The handler awaits    *)
(* Attendance.find, continues synchronously through the validation and the *)
(* construction of the document, and awaits save: other requests run       *)
(* between the read and the write.  The clock stays within one calendar    *)
(* day.                                                                    *)

RaceInstants == DayOffsets

InFlight == {p \in Procs : pc[p] # "idle"}

\* authenticate, requireApproval, then lines 543-551: the query for today's
\* records is answered
RaceFind(p, u, type, isOffline, offlineTimestamp) ==
  LET gate == Gate(u)
  IN /\ pc[p] = "idle"
     /\ BagCardinality(events) + Cardinality(InFlight) < MaxRaceEvents
     /\ IF gate.error # "none"
          THEN /\ resp' = Reply("markAttendance", u, type, gate.status, gate.error, gate.by)
               /\ UNCHANGED <<pc, req, found>>
          ELSE /\ pc' = [pc EXCEPT ![p] = "found"]
               /\ req' = [req EXCEPT ![p] = [user |-> u, type |-> type,
                                             isOffline |-> isOffline,
                                             offlineTimestamp |-> offlineTimestamp]]
               /\ found' = [found EXCEPT ![p] = TodayAttendance(events, u, now)]
               /\ UNCHANGED resp
     /\ UNCHANGED <<now, isApproved, isActive, loginAttempts, lockUntil, lastLogin,
                    events, doc, rec, streak, fifthAt, cleared,
                 directoryVars, recoveryVars, profileVars>>

\* lines 553-596: the validation on the records that were read, then
\* new Attendance({...})
RaceValidate(p) ==
  LET verdict == Validate(found[p], req[p].type)
  IN /\ pc[p] = "found"
     /\ IF verdict # "none"
          THEN /\ resp' = Reply("markAttendance", req[p].user, req[p].type, 400,
                                verdict, "markAttendance")
               /\ pc' = [pc EXCEPT ![p] = "idle"]
               /\ req' = [req EXCEPT ![p] = NoReq]
               /\ UNCHANGED doc
          ELSE /\ doc' = [doc EXCEPT ![p] =
                            NewAttendance(req[p].user, req[p].type,
                              EventTime(req[p].isOffline, req[p].offlineTimestamp))]
               /\ pc' = [pc EXCEPT ![p] = "save"]
               /\ UNCHANGED <<resp, req>>
     /\ found' = [found EXCEPT ![p] = {}]
     /\ UNCHANGED <<now, isApproved, isActive, loginAttempts, lockUntil, lastLogin,
                    events, rec, streak, fifthAt, cleared,
                 directoryVars, recoveryVars, profileVars>>

\* lines 598-608: attendance.save(), user.save(), the 201 response
RaceSave(p) ==
  /\ pc[p] = "save"
  /\ events' = events (+) SetToBag({doc[p]})
  /\ lastLogin' = [lastLogin EXCEPT ![req[p].user] = now]
  /\ resp' = Reply("markAttendance", req[p].user, req[p].type, 201, "none",
                   "markAttendance")
  /\ pc' = [pc EXCEPT ![p] = "idle"]
  /\ req' = [req EXCEPT ![p] = NoReq]
  /\ doc' = [doc EXCEPT ![p] = NoDoc]
  /\ UNCHANGED <<now, isApproved, isActive, loginAttempts, lockUntil,
                 found, rec, streak, fifthAt, cleared,
                 directoryVars, recoveryVars, profileVars>>

TickRace ==
  /\ \E t \in RaceInstants : t > now
  /\ now' = NextInstant(RaceInstants)
  /\ UNCHANGED <<isApproved, isActive, loginAttempts, lockUntil, lastLogin,
                 events, resp, pc, req, found, doc, rec, streak, fifthAt, cleared,
                 directoryVars, recoveryVars, profileVars>>

NextRace ==
  \/ \E p \in Procs, u \in Users, type \in Types, isOffline \in BOOLEAN :
       \E offlineTimestamp \in OfflineTimestamps(isOffline, RaceInstants) :
          RaceFind(p, u, type, isOffline, offlineTimestamp)
  \/ \E p \in Procs : RaceValidate(p)
  \/ \E p \in Procs : RaceSave(p)
  \/ TickRace

SpecRace == Init /\ [][NextRace]_vars

----------------------------------------------------------------------------
(* Attendance.markCheckOut on one record *)

\* AttendanceSchema.statics.calculateWorkingHours
calculateWorkingHours(checkIn, checkOut, breakTime) ==
  IF checkOut = NoTime THEN 0
  ELSE LET diffInMs == checkOut - checkIn
           totalMinutes == diffInMs \div (1000 * 60)
       IN IF totalMinutes - breakTime > 0 THEN totalMinutes - breakTime ELSE 0

standardWorkDay == 8 * 60

\* AttendanceSchema.methods.markCheckOut
MarkCheckOut(checkOutTime) ==
  LET totalMinutes == calculateWorkingHours(rec.checkInTime, checkOutTime, rec.breakTime)
  IN /\ rec.calls < MaxCheckOutCalls
     /\ rec' = [rec EXCEPT
                  !.checkOutTime = checkOutTime,
                  !.type = "check-out",
                  !.workingHours = totalMinutes,
                  !.overtime = IF totalMinutes > standardWorkDay
                                 THEN totalMinutes - standardWorkDay
                                 ELSE @,
                  !.calls = @ + 1]
     /\ UNCHANGED <<now, isApproved, isActive, loginAttempts, lockUntil, lastLogin,
                    events, resp, pc, req, found, doc, streak, fifthAt, cleared,
                 directoryVars, recoveryVars, profileVars>>

HourMs == 60 * MsPerMinute

\* check-in and check-out times of day the record is tried with
CheckInTimes == {9 * HourMs, 13 * HourMs}

CheckOutTimes == {8 * HourMs, 9 * HourMs, 9 * HourMs + 30 * 1000,
                  9 * HourMs + 90 * 1000, 17 * HourMs, 18 * HourMs,
                  19 * HourMs + 30 * MsPerMinute, 23 * HourMs}

BreakTimes == {0, 30, 60}

\* a record as a check-in leaves it: no check-out, metrics at their defaults
InitCheckOut ==
  /\ now = FirstInstant
  /\ isApproved = [u \in Users |-> TRUE]
  /\ isActive = [u \in Users |-> TRUE]
  /\ lastLogin = [u \in Users |-> NoTime]
  /\ events = EmptyBag
  /\ resp = NoReply
  /\ \E checkInTime \in CheckInTimes, breakTime \in BreakTimes :
       rec = [NoRec EXCEPT !.checkInTime = checkInTime, !.type = "check-in",
                           !.breakTime = breakTime]
  /\ IdleRace
  /\ IdleAuth
  /\ IdleDirectory
  /\ IdleRecovery
  /\ IdleProfile

NextCheckOut == \E checkOutTime \in CheckOutTimes : MarkCheckOut(checkOutTime)

SpecCheckOut == InitCheckOut /\ [][NextCheckOut]_vars

----------------------------------------------------------------------------
(* User.findByCredentials *)

MaxLoginAttempts == 5

LockMs_Mut == 60 * 60 * 1000

LockMs == 2 * 60 * 60 * 1000

HalfHourMs == 30 * MsPerMinute

AuthInstants == {k * HalfHourMs : k \in 0..MaxAuthHalfHours}

Emails == Users \cup {"nobody"}

\* incLoginAttempts, line 197: a previous lock that has expired
LockExpired(u) == lockUntil[u] # NoTime /\ lockUntil[u] < now

\* incLoginAttempts, line 207: this failure reaches the limit
ReachesLimit_Mut(u) == loginAttempts[u] + 1 > MaxLoginAttempts /\ ~isLocked(u)

ReachesLimit(u) == loginAttempts[u] + 1 >= MaxLoginAttempts /\ ~isLocked(u)

\* UserSchema.methods.incLoginAttempts: the updateOne it issues
incLoginAttempts(u) ==
  IF LockExpired(u)
    THEN /\ lockUntil' = [lockUntil EXCEPT ![u] = NoTime]
         /\ loginAttempts' = [loginAttempts EXCEPT ![u] = 1]
    ELSE /\ loginAttempts' = [loginAttempts EXCEPT ![u] = @ + 1]
         /\ lockUntil' = IF ReachesLimit(u)
                           THEN [lockUntil EXCEPT ![u] = now + LockMs]
                           ELSE lockUntil

\* UserSchema.methods.resetLoginAttempts
resetLoginAttempts_Mut(u) ==
  /\ lockUntil' = [lockUntil EXCEPT ![u] = NoTime]
  /\ UNCHANGED loginAttempts

resetLoginAttempts(u) ==
  /\ loginAttempts' = [loginAttempts EXCEPT ![u] = 0]
  /\ lockUntil' = [lockUntil EXCEPT ![u] = NoTime]

Wording(isMatch) == IF isMatch THEN "right" ELSE "wrong"

\* UserSchema.statics.findByCredentials; isMatch is the outcome of
\* comparePassword for the submitted password.  streak and fifthAt record
\* the history of the account: wrong passwords in a row since the last
\* successful login, and the instant of the fifth of them for as long as no
\* further password has been found wrong; cleared records how many failures
\* this call has wiped out.
findByCredentials(email, isMatch) ==
  /\ IF email \notin Users
       THEN /\ resp' = Reply("authenticate", email, Wording(isMatch), 401,
                             "InvalidCredentials", "findByCredentials")
            /\ cleared' = 0
            /\ UNCHANGED <<loginAttempts, lockUntil, lastLogin, streak, fifthAt>>
     ELSE IF isLocked(email)
       THEN /\ resp' = Reply("authenticate", email, Wording(isMatch), 401,
                             "AccountLocked", "findByCredentials")
            /\ cleared' = 0
            /\ UNCHANGED <<loginAttempts, lockUntil, lastLogin, streak, fifthAt>>
     ELSE IF ~isMatch
       THEN /\ incLoginAttempts(email)
            /\ resp' = Reply("authenticate", email, Wording(isMatch), 401,
                             "InvalidCredentials", "findByCredentials")
            /\ streak' = [streak EXCEPT ![email] =
                            IF @ < MaxLoginAttempts + 1 THEN @ + 1 ELSE @]
            /\ fifthAt' = [fifthAt EXCEPT ![email] =
                             IF streak[email] + 1 = MaxLoginAttempts THEN now ELSE NoTime]
            /\ cleared' = 0
            /\ UNCHANGED lastLogin
     ELSE /\ IF loginAttempts[email] > 0
               THEN resetLoginAttempts(email)
               ELSE UNCHANGED <<loginAttempts, lockUntil>>
          /\ lastLogin' = [lastLogin EXCEPT ![email] = now]
          /\ resp' = Reply("authenticate", email, Wording(isMatch), 200, "none",
                           "findByCredentials")
          /\ streak' = [streak EXCEPT ![email] = 0]
          /\ cleared' = loginAttempts[email]
          /\ UNCHANGED fifthAt
  /\ UNCHANGED <<now, isApproved, isActive, events, pc, req, found, doc, rec,
                 directoryVars, recoveryVars, profileVars>>

TickAuth ==
  /\ \E t \in AuthInstants : t > now
  /\ now' = NextInstant(AuthInstants)
  /\ UNCHANGED <<isApproved, isActive, loginAttempts, lockUntil, lastLogin,
                 events, resp, pc, req, found, doc, rec, streak, fifthAt, cleared,
                 directoryVars, recoveryVars, profileVars>>

\* registered accounts that have not failed a login yet
InitAuth ==
  /\ now = 0
  /\ isApproved = [u \in Users |-> TRUE]
  /\ isActive = [u \in Users |-> TRUE]
  /\ lastLogin = [u \in Users |-> NoTime]
  /\ events = EmptyBag
  /\ resp = NoReply
  /\ rec = NoRec
  /\ IdleRace
  /\ IdleAuth
  /\ IdleDirectory
  /\ IdleRecovery
  /\ IdleProfile

NextAuth ==
  \/ \E email \in Emails, isMatch \in BOOLEAN : findByCredentials(email, isMatch)
  \/ TickAuth

SpecAuth == InitAuth /\ [][NextAuth]_vars

----------------------------------------------------------------------------
(* findByCredentials as concurrently running requests.  The static method  *)
(* awaits findOne, checks isLocked on the document it got, awaits          *)
(* comparePassword, and then issues one updateOne whose operators were     *)
(* chosen from that document; the database applies each updateOne          *)
(* atomically to the stored user.  Other requests run between the read and *)
(* the update.                                                             *)

\* the clock of the race: the start, and an instant after a lock taken at
\* the start has expired
AuthRaceInstants == {0, 3 * HourMs}

\* the emails the racing requests carry: one account, and an unknown email
AuthRaceEmails == {"u1", "nobody"}

\* the fields of the user document that findOne returned
UserRead(u) == [loginAttempts |-> loginAttempts[u], lockUntil |-> lockUntil[u]]

\* the virtual isLocked on a document read earlier
isLockedRead(user) == user.lockUntil # NoTime /\ user.lockUntil > now

\* incLoginAttempts, line 197, on a document read earlier
LockExpiredRead(user) == user.lockUntil # NoTime /\ user.lockUntil < now

\* incLoginAttempts, line 207, on a document read earlier
ReachesLimitRead(user) ==
  user.loginAttempts + 1 >= MaxLoginAttempts /\ ~isLockedRead(user)

\* lines 255-265: findOne is answered; no user and a locked user are
\* answered at once, otherwise comparePassword is awaited
AuthFind(p, email, isMatch) ==
  /\ pc[p] = "idle"
  /\ IF email \notin Users
       THEN /\ resp' = Reply("authenticate", email, Wording(isMatch), 401,
                             "InvalidCredentials", "findByCredentials")
            /\ UNCHANGED <<pc, req, found>>
     ELSE IF isLocked(email)
       THEN /\ resp' = Reply("authenticate", email, Wording(isMatch), 401,
                             "AccountLocked", "findByCredentials")
            /\ UNCHANGED <<pc, req, found>>
     ELSE /\ pc' = [pc EXCEPT ![p] = "compared"]
          /\ req' = [req EXCEPT ![p] = [NoReq EXCEPT !.user = email,
                                                     !.type = Wording(isMatch)]]
          /\ found' = [found EXCEPT ![p] = UserRead(email)]
          /\ UNCHANGED resp
  /\ UNCHANGED <<now, isApproved, isActive, loginAttempts, lockUntil, lastLogin,
                 events, doc, rec, streak, fifthAt, cleared,
                 directoryVars, recoveryVars, profileVars>>

\* the updateOne of incLoginAttempts: its operators come from the document
\* read earlier, $inc and $set act on the stored user
incLoginAttemptsRead(u, user) ==
  IF LockExpiredRead(user)
    THEN /\ lockUntil' = [lockUntil EXCEPT ![u] = NoTime]
         /\ loginAttempts' = [loginAttempts EXCEPT ![u] = 1]
    ELSE /\ loginAttempts' = [loginAttempts EXCEPT ![u] = @ + 1]
         /\ lockUntil' = IF ReachesLimitRead(user)
                           THEN [lockUntil EXCEPT ![u] = now + LockMs]
                           ELSE lockUntil

\* lines 267-276: comparePassword has answered; the counter update is issued
\* and applied, and the request is answered
AuthUpdate(p) ==
  LET u == req[p].user
      user == found[p]
  IN /\ pc[p] = "compared"
     /\ IF req[p].type = Wording(FALSE)
          THEN /\ incLoginAttemptsRead(u, user)
               /\ resp' = Reply("authenticate", u, req[p].type, 401,
                                "InvalidCredentials", "findByCredentials")
               /\ UNCHANGED lastLogin
          ELSE /\ IF user.loginAttempts > 0
                    THEN resetLoginAttempts(u)
                    ELSE UNCHANGED <<loginAttempts, lockUntil>>
               /\ lastLogin' = [lastLogin EXCEPT ![u] = now]
               /\ resp' = Reply("authenticate", u, req[p].type, 200, "none",
                                "findByCredentials")
     /\ pc' = [pc EXCEPT ![p] = "idle"]
     /\ req' = [req EXCEPT ![p] = NoReq]
     /\ found' = [found EXCEPT ![p] = {}]
     /\ UNCHANGED <<now, isApproved, isActive, events, doc, rec,
                    streak, fifthAt, cleared,
                    directoryVars, recoveryVars, profileVars>>

TickAuthRace ==
  /\ \E t \in AuthRaceInstants : t > now
  /\ now' = NextInstant(AuthRaceInstants)
  /\ UNCHANGED <<isApproved, isActive, loginAttempts, lockUntil, lastLogin,
                 events, resp, pc, req, found, doc, rec, streak, fifthAt, cleared,
                 directoryVars, recoveryVars, profileVars>>

NextAuthRace ==
  \/ \E p \in Procs, email \in AuthRaceEmails, isMatch \in BOOLEAN :
       AuthFind(p, email, isMatch)
  \/ \E p \in Procs : AuthUpdate(p)
  \/ TickAuthRace

SpecAuthRace == InitAuth /\ [][NextAuthRace]_vars

----------------------------------------------------------------------------
(* Administration of users and of attendance records, and the listings and *)
(* reports of the admin, hr and super-admin roles.  A request reaches its   *)
(* handler only after the middleware of its route has let it through, so    *)
(* each action is enabled for the callers that authenticate and authorize   *)
(* admit.  Users carry the fields the handlers read or write; a deleted     *)
(* user leaves the domain of every user field.                              *)

\* one admin and one hr of organization orgA, one employee of organization
\* orgB, and a super-admin, who belongs to no organization
Staff == {"adminA", "hrA", "empB", "root"}

RoleOf == [adminA |-> "admin", hrA |-> "hr", empB |-> "employee", root |-> "super-admin"]

OrganizationOf == [adminA |-> "orgA", hrA |-> "orgA", empB |-> "orgB", root |-> "none"]

\* the _id of every stored user
UserIds == DOMAIN role

\* ids a request can name: those of the staff and one that no document has
TargetIds == Staff \cup {"nobody"}

AttendanceIds == {"e1", "e2", "e0"}

\* an attendance document as markAttendance stores it (line 577): the
\* organization is the one of the user
Stored(id, u, type, t) ==
  [_id |-> id, organization |-> OrganizationOf[u], createdAt |-> t,
   status |-> "auto-approved", notes |-> "none"] @@ NewAttendance(u, type, t)

\* Attendance.findById
FindById(id) == {e \in BagToSet(events) : e._id = id}

\* middleware authenticate: the token names a stored, active, unlocked user
Authenticated(u) == u \in UserIds /\ isActive[u] /\ ~isLocked(u)

\* middleware authorize(roles)
authorize(roles, u) == role[u] \in roles

Admitted(u, roles) == Authenticated(u) /\ authorize(roles, u)

AdminReply(op, actor, target, action, status, error) ==
  [op |-> op, user |-> actor, type |-> action, status |-> status,
   error |-> error, by |-> op, target |-> target]

\* a field function without the deleted user
Without(field, id) == [u \in (DOMAIN field) \ {id} |-> field[u]]

\* lines 249-250 and 440-441:
\* req.user.role === 'admin' && !req.user.organization.equals(user.organization)
CanManageUser_Mut(actor, id) == TRUE

CanManageUser(actor, id) ==
  ~(role[actor] = "admin" /\ organization[actor] # organization[id])

\* lines 258-259: the actor is the target and the action is deactivate or reject
SelfForbidden_Mut(actor, id, action) == actor = id /\ action \in {"deactivate"}

SelfForbidden(actor, id, action) == actor = id /\ action \in {"deactivate", "reject"}

\* adminActionSchema
AdminActions == {"approve", "reject", "activate", "deactivate", "reset-face"}

\* the actions requests carry: the valid ones and one the schema rejects
ActionsTried == AdminActions \cup {"promote"}

\* the user fields a request leaves alone, lockout and login fields included
LoginUntouched == UNCHANGED <<loginAttempts, lockUntil, lastLogin>>

\* POST /api/users/:id/admin-action; approvedBy and approvedDate, which no
\* handler reads, are left out
PerformAdminAction(actor, id, action) ==
  /\ Admitted(actor, {"admin", "super-admin"})
  /\ IF action \notin AdminActions
       THEN /\ resp' = AdminReply("performAdminAction", actor, id, action, 400, "ValidationError")
            /\ UNCHANGED <<isApproved, isActive, faceEnrolled>>
     ELSE IF id \notin UserIds
       THEN /\ resp' = AdminReply("performAdminAction", actor, id, action, 404, "UserNotFound")
            /\ UNCHANGED <<isApproved, isActive, faceEnrolled>>
     ELSE IF ~CanManageUser(actor, id)
       THEN /\ resp' = AdminReply("performAdminAction", actor, id, action, 403,
                                  "CrossOrganizationAccess")
            /\ UNCHANGED <<isApproved, isActive, faceEnrolled>>
     ELSE IF SelfForbidden(actor, id, action)
       THEN /\ resp' = AdminReply("performAdminAction", actor, id, action, 400,
                                  "SelfActionForbidden")
            /\ UNCHANGED <<isApproved, isActive, faceEnrolled>>
     ELSE /\ isApproved' = IF action = "approve" THEN [isApproved EXCEPT ![id] = TRUE]
                           ELSE IF action = "reject" THEN [isApproved EXCEPT ![id] = FALSE]
                           ELSE isApproved
          /\ isActive' = IF action = "activate" THEN [isActive EXCEPT ![id] = TRUE]
                         ELSE IF action \in {"reject", "deactivate"}
                           THEN [isActive EXCEPT ![id] = FALSE]
                         ELSE isActive
          /\ faceEnrolled' = IF action = "reset-face" THEN [faceEnrolled EXCEPT ![id] = FALSE]
                             ELSE faceEnrolled
          /\ resp' = AdminReply("performAdminAction", actor, id, action, 200, "none")
  /\ listed' = NoListing
  /\ LoginUntouched
  /\ UNCHANGED <<now, events, role, organization, orgs, inserted, pc, req, found, doc, rec,
                 streak, fifthAt, cleared, recoveryVars, profileVars>>

\* DELETE /api/users/:id
DeleteUser(actor, id) ==
  /\ Admitted(actor, {"admin", "super-admin"})
  /\ IF id \notin UserIds
       THEN /\ resp' = AdminReply("deleteUser", actor, id, "none", 404, "UserNotFound")
            /\ UNCHANGED <<events, role, organization, isApproved, isActive,
                           faceEnrolled, loginAttempts, lockUntil, lastLogin>>
     ELSE IF ~CanManageUser(actor, id)
       THEN /\ resp' = AdminReply("deleteUser", actor, id, "none", 403,
                                  "CrossOrganizationAccess")
            /\ UNCHANGED <<events, role, organization, isApproved, isActive,
                           faceEnrolled, loginAttempts, lockUntil, lastLogin>>
     ELSE IF actor = id
       THEN /\ resp' = AdminReply("deleteUser", actor, id, "none", 400, "SelfDeletionForbidden")
            /\ UNCHANGED <<events, role, organization, isApproved, isActive,
                           faceEnrolled, loginAttempts, lockUntil, lastLogin>>
     ELSE /\ events' = SetToBag({e \in BagToSet(events) : e.user # id})
          /\ role' = Without(role, id)
          /\ organization' = Without(organization, id)
          /\ isApproved' = Without(isApproved, id)
          /\ isActive' = Without(isActive, id)
          /\ faceEnrolled' = Without(faceEnrolled, id)
          /\ loginAttempts' = Without(loginAttempts, id)
          /\ lockUntil' = Without(lockUntil, id)
          /\ lastLogin' = Without(lastLogin, id)
          /\ resp' = AdminReply("deleteUser", actor, id, "none", 200, "none")
  /\ listed' = NoListing
  /\ UNCHANGED <<now, orgs, inserted, pc, req, found, doc, rec, streak, fifthAt, cleared,
                 recoveryVars, profileVars>>

\* lines 976-977 and 1023-1024:
\* req.user.role === 'admin' && !req.user.organization.equals(attendance.organization)
CanModifyRecord_Mut(actor, attendance) == TRUE

CanModifyRecord(actor, attendance) ==
  ~(role[actor] = "admin" /\ organization[actor] # attendance.organization)

\* a request field that the body does not carry
Undefined == "undefined"

\* the paths updateAttendance assigns on the document (lines 985-989)
Assigned(note, approval) ==
  (IF note # Undefined THEN {"note"} ELSE {})
    \cup (IF approval # Undefined THEN {"isApproved"} ELSE {})
    \cup {"modifiedBy", "modifiedAt"}

\* attendance.save(): the schema is strict, so of the assigned paths those
\* the AttendanceSchema declares are written and the others are dropped
Save(attendance, paths, values) ==
  [f \in DOMAIN attendance |-> IF f \in paths THEN values[f] ELSE attendance[f]]

\* const { note, isApproved } = req.body, kept with the answer
Patch(note, approval) == [note |-> note, isApproved |-> approval]

NotesTried == {Undefined, "late bus"}

ApprovalsTried == {Undefined, "true", "false"}

\* PUT /api/attendance/:id
UpdateAttendance(actor, id, note, approval) ==
  /\ Admitted(actor, {"admin", "super-admin"})
  /\ IF FindById(id) = {}
       THEN /\ resp' = AdminReply("updateAttendance", actor, id, "none", 404,
                                  "AttendanceNotFound")
            /\ UNCHANGED events
     ELSE LET attendance == CHOOSE e \in FindById(id) : TRUE
              values == [note |-> note, isApproved |-> approval,
                         modifiedBy |-> actor, modifiedAt |-> now]
          IN IF ~CanModifyRecord(actor, attendance)
               THEN /\ resp' = AdminReply("updateAttendance", actor, id, "none", 403,
                                          "CrossOrganizationAccess")
                    /\ UNCHANGED events
             ELSE /\ events' = SetToBag((BagToSet(events) \ {attendance})
                                 \cup {Save(attendance, Assigned(note, approval), values)})
                  /\ resp' = Patch(note, approval)
                                @@ AdminReply("updateAttendance", actor, id, "none", 200, "none")
  /\ listed' = NoListing
  /\ LoginUntouched
  /\ UNCHANGED <<now, isApproved, isActive, role, organization, faceEnrolled,
                 orgs, inserted, pc, req, found, doc, rec, streak, fifthAt, cleared,
                 recoveryVars, profileVars>>

\* DELETE /api/attendance/:id
DeleteAttendance(actor, id) ==
  /\ Admitted(actor, {"admin", "super-admin"})
  /\ IF FindById(id) = {}
       THEN /\ resp' = AdminReply("deleteAttendance", actor, id, "none", 404,
                                  "AttendanceNotFound")
            /\ UNCHANGED events
     ELSE LET attendance == CHOOSE e \in FindById(id) : TRUE
          IN IF ~CanModifyRecord(actor, attendance)
               THEN /\ resp' = AdminReply("deleteAttendance", actor, id, "none", 403,
                                          "CrossOrganizationAccess")
                    /\ UNCHANGED events
             ELSE /\ events' = SetToBag(BagToSet(events) \ {attendance})
                  /\ resp' = AdminReply("deleteAttendance", actor, id, "none", 200, "none")
  /\ listed' = NoListing
  /\ LoginUntouched
  /\ UNCHANGED <<now, isApproved, isActive, role, organization, faceEnrolled,
                 orgs, inserted, pc, req, found, doc, rec, streak, fifthAt, cleared,
                 recoveryVars, profileVars>>

\* the roles the listing and reporting routes admit
ListingRoles == {"admin", "hr", "super-admin"}

\* query.organization = req.user.organization, added when req.user.role === 'admin'
ScopedUsers(caller) ==
  {u \in UserIds : role[caller] = "admin" => organization[u] = organization[caller]}

ScopedEvents(caller) ==
  {e \in BagToSet(events) :
     role[caller] = "admin" => e.organization = organization[caller]}

\* checkInTime: {$gte: startOfDay, $lt: endOfDay}
Today(evs) ==
  {e \in evs : e.checkInTime >= StartOfDay(now) /\ e.checkInTime < StartOfDay(now) + DayMs}

\* $lookup and $unwind on the user, or populate('user') and the filter on
\* att.user: the events whose user is stored
Joined(evs) == {e \in evs : e.user \in UserIds}

UsersOf(evs) == {e.user : e \in evs}

\* what a listing or report was computed from, with the caller as it was
Listing(op, caller, users, evs) ==
  [op |-> op, caller |-> caller, role |-> role[caller],
   organization |-> organization[caller],
   users |-> {[_id |-> u, organization |-> organization[u]] : u \in users},
   events |-> evs]

\* the part every listing and report shares: the caller is admitted, the
\* documents are recorded, the stores stay as they are
Answer(op, caller, users, evs) ==
  /\ Admitted(caller, ListingRoles)
  /\ listed' = Listing(op, caller, users, evs)
  /\ resp' = AdminReply(op, caller, "none", "none", 200, "none")
  /\ LoginUntouched
  /\ UNCHANGED <<now, events, isApproved, isActive, role, organization,
                 faceEnrolled, orgs, inserted, pc, req, found, doc, rec, streak, fifthAt,
                 cleared, recoveryVars, profileVars>>

\* GET /api/users/all, without the optional filters: the users of the query
\* and today's attendance of each
GetAllUsers(caller) ==
  Answer("getAllUsers", caller, ScopedUsers(caller),
         UNION {TodayAttendance(events, u, now) : u \in ScopedUsers(caller)})

\* GET /api/users/departments: the users whose departments are returned
GetDepartments(caller) ==
  Answer("getDepartments", caller, ScopedUsers(caller), {})

\* GET /api/users/stats: the users counted and today's attendance counted
GetUserStats(caller) ==
  Answer("getUserStats", caller, ScopedUsers(caller), Today(ScopedEvents(caller)))

\* GET /api/attendance/all, without the optional filters
GetAllAttendance(caller) ==
  Answer("getAllAttendance", caller, UsersOf(Joined(ScopedEvents(caller))),
         Joined(ScopedEvents(caller)))

\* GET /api/attendance/stats for the current year
GetAttendanceStats(caller) ==
  Answer("getAttendanceStats", caller, UsersOf(Joined(ScopedEvents(caller))),
         Joined(ScopedEvents(caller)))

\* GET /api/attendance/today-summary: today's attendance grouped by user and
\* the count of the active, approved users
GetTodaySummary(caller) ==
  Answer("getTodaySummary", caller,
         {u \in ScopedUsers(caller) : isActive[u] /\ isApproved[u]}
           \cup UsersOf(Joined(Today(ScopedEvents(caller)))),
         Joined(Today(ScopedEvents(caller))))

\* the users of lines 1176-1181: those of the caller's organization when the
\* caller is an admin that has one, every user otherwise
OrgUsers(caller) ==
  {u \in UserIds : (role[caller] = "admin" /\ organization[caller] # "none")
                     => organization[u] = organization[caller]}

DatesTried == {NoTime, StartOfDay(FirstInstant)}

\* GET /api/attendance/by-date
GetAttendanceByDate(caller, date) ==
  IF date = NoTime
    THEN /\ Admitted(caller, ListingRoles)
         /\ listed' = NoListing
         /\ resp' = AdminReply("getAttendanceByDate", caller, "none", "none", 400,
                               "ValidationError")
         /\ LoginUntouched
         /\ UNCHANGED <<now, events, isApproved, isActive, role, organization,
                        faceEnrolled, orgs, inserted, pc, req, found, doc, rec, streak,
                        fifthAt, cleared, recoveryVars, profileVars>>
  ELSE LET matched == {e \in BagToSet(events) :
                         /\ e.createdAt >= date /\ e.createdAt < date + DayMs
                         /\ e.user \in OrgUsers(caller)}
       IN Answer("getAttendanceByDate", caller, UsersOf(Joined(matched)), Joined(matched))

\* the fields and collections that the administration leaves at one value
IdleAdmin ==
  /\ now = FirstInstant
  /\ loginAttempts = [u \in Staff |-> 0]
  /\ lockUntil = [u \in Staff |-> NoTime]
  /\ lastLogin = [u \in Staff |-> NoTime]
  /\ resp = NoReply
  /\ listed = NoListing
  /\ orgs = {}
  /\ inserted = 0
  /\ rec = NoRec
  /\ streak = [u \in Users |-> 0]
  /\ fifthAt = [u \in Users |-> NoTime]
  /\ cleared = 0
  /\ IdleRace
  /\ IdleRecovery
  /\ IdleProfile

\* an attendance event of hrA and one of empB
Ledger == SetToBag({Stored("e1", "hrA", "check-in", FirstInstant),
                    Stored("e2", "empB", "check-in", FirstInstant)})

\* every member of staff approved, active and enrolled
InitAdmin ==
  /\ role = RoleOf
  /\ organization = OrganizationOf
  /\ isApproved = [u \in Staff |-> TRUE]
  /\ isActive = [u \in Staff |-> TRUE]
  /\ faceEnrolled = [u \in Staff |-> TRUE]
  /\ events = Ledger
  /\ IdleAdmin

NextAdmin ==
  \/ \E actor \in Staff, id \in TargetIds, action \in ActionsTried :
       PerformAdminAction(actor, id, action)
  \/ \E actor \in Staff, id \in TargetIds : DeleteUser(actor, id)

SpecAdmin == InitAdmin /\ [][NextAdmin]_vars

\* the admin and the super-admin approved and active, the other members of
\* staff in any state of approval and activation
InitRecords ==
  /\ role = RoleOf
  /\ organization = OrganizationOf
  /\ isApproved \in {f \in [Staff -> BOOLEAN] : f["adminA"] /\ f["root"]}
  /\ isActive \in {f \in [Staff -> BOOLEAN] : f["adminA"] /\ f["root"]}
  /\ faceEnrolled = [u \in Staff |-> TRUE]
  /\ events = Ledger
  /\ IdleAdmin

NextRecords ==
  \/ \E actor \in Staff, id \in AttendanceIds, note \in NotesTried,
        approval \in ApprovalsTried : UpdateAttendance(actor, id, note, approval)
  \/ \E actor \in Staff, id \in AttendanceIds : DeleteAttendance(actor, id)
  \/ \E caller \in Staff : GetAllUsers(caller)
  \/ \E caller \in Staff : GetDepartments(caller)
  \/ \E caller \in Staff : GetUserStats(caller)
  \/ \E caller \in Staff : GetAllAttendance(caller)
  \/ \E caller \in Staff : GetAttendanceStats(caller)
  \/ \E caller \in Staff : GetTodaySummary(caller)
  \/ \E caller \in Staff, date \in DatesTried : GetAttendanceByDate(caller, date)

SpecRecords == InitRecords /\ [][NextRecords]_vars

----------------------------------------------------------------------------
(* The tenant directory: the organizations collection with its unique      *)
(* index on inviteCode, and the users that reference an organization.  The  *)
(* routes of createOrganization, updateOrganization and deleteOrganization  *)
(* admit super-admins only; registerOrganization and the lookup by invite   *)
(* code are public.                                                         *)

\* the _id of the n-th organization inserted; an ObjectId is never reused
ObjectIds == <<"o1", "o2", "o3", "o4", "o5", "o6", "o7", "o8">>

NewId == ObjectIds[inserted + 1]

\* the ids requests name: those that can have been inserted and one that
\* has not
OrgIdsTried == {ObjectIds[n] : n \in 1..MaxOrgs} \cup {"o0"}

Names == {"Acme", "Globex"}

\* the results of generateInviteCode: eight characters drawn at random
InviteCodes == {"AB12CD34", "ZX98YW76"}

CodesTried == InviteCodes \cup {"NOSUCH00"}

\* the e-mail addresses of the managers that register an organization
ManagerEmails == {"m1", "m2"}

\* a field function with the field of a new user
With(field, id, value) ==
  [u \in (DOMAIN field) \cup {id} |-> IF u = id THEN value ELSE field[u]]

\* Organization.findOne({name, isActive: true})
ExistingOrg(name) == {o \in orgs : o.name = name /\ o.isActive}

\* the unique index on inviteCode: a stored organization has the code
DuplicateKey_Mut(code) == FALSE

DuplicateKey(code) == \E o \in orgs : o.inviteCode = code

\* new Organization({...}) after generateInviteCode: isActive defaults to true
NewOrganization(name, code) ==
  [_id |-> NewId, name |-> name, isActive |-> TRUE, inviteCode |-> code]

OrgReply(op, actor, target, status, error, answer) ==
  [op |-> op, user |-> actor, type |-> "none", status |-> status, error |-> error,
   by |-> op, target |-> target, found |-> answer]

\* the user fields, which only registerOrganization changes
UsersUntouched ==
  UNCHANGED <<role, organization, isApproved, isActive, faceEnrolled,
              loginAttempts, lockUntil, lastLogin>>

\* what no request to the directory changes
OrgFrame ==
  UNCHANGED <<now, events, listed, pc, req, found, doc, rec, streak, fifthAt, cleared,
              tokenVars, profileVars>>

\* POST /api/organizations
CreateOrganization(actor, name, code) ==
  /\ Admitted(actor, {"super-admin"})
  /\ IF ExistingOrg(name) # {}
       THEN /\ resp' = OrgReply("createOrganization", actor, name, 400, "DuplicateName", "none")
            /\ UNCHANGED <<orgs, inserted>>
     ELSE IF DuplicateKey(code)
       THEN /\ resp' = OrgReply("createOrganization", actor, name, 500, "UnexpectedError", "none")
            /\ UNCHANGED <<orgs, inserted>>
     ELSE /\ inserted < MaxOrgs
          /\ orgs' = orgs \cup {NewOrganization(name, code)}
          /\ inserted' = inserted + 1
          /\ resp' = OrgReply("createOrganization", actor, name, 201, "none", NewId)
  /\ UsersUntouched
  /\ mail' = "none"
  /\ OrgFrame

\* what the email service can do with a message: deliver it, fail in
\* sendEmail (the send methods catch the error and return false), or fail to
\* load (new EmailService() throws at require when EMAIL_USER is not set)
Deliveries == {"sent", "failed", "unavailable"}

\* managerData.password (values tried); UserSchema.password has minlength 6
ManagerPasswords == {"abc", "secret1"}

PasswordMinLength == 6

\* the status registerOrganization answers with after both saves: the try
\* around the email service absorbs whatever it throws
RegisteredStatus_Mut(delivery) == IF delivery = "sent" THEN 201 ELSE 500

RegisteredStatus(delivery) == 201

\* the validation manager.save() runs
ValidManager(pw) == Len(pw) >= PasswordMinLength

\* POST /api/auth/register-organization; confirmed tells whether
\* managerData.password equals managerData.confirmPassword
RegisterOrganization(name, email, pw, confirmed, code, delivery) ==
  /\ IF ExistingOrg(name) # {}
       THEN /\ resp' = OrgReply("registerOrganization", email, name, 400, "DuplicateName", "none")
            /\ UNCHANGED <<orgs, inserted>>
            /\ UsersUntouched
            /\ mail' = "none"
     ELSE IF email \in UserIds
       THEN /\ resp' = OrgReply("registerOrganization", email, name, 400, "UserExists", "none")
            /\ UNCHANGED <<orgs, inserted>>
            /\ UsersUntouched
            /\ mail' = "none"
     ELSE IF ~confirmed
       THEN /\ resp' = OrgReply("registerOrganization", email, name, 400,
                                "PasswordMismatch", "none")
            /\ UNCHANGED <<orgs, inserted>>
            /\ UsersUntouched
            /\ mail' = "none"
     ELSE IF DuplicateKey(code)
       THEN /\ resp' = OrgReply("registerOrganization", email, name, 500,
                                "UnexpectedError", "none")
            /\ UNCHANGED <<orgs, inserted>>
            /\ UsersUntouched
            /\ mail' = "none"
     ELSE /\ inserted < MaxOrgs
          /\ orgs' = orgs \cup {NewOrganization(name, code)}
          /\ inserted' = inserted + 1
          /\ IF ~ValidManager(pw)
               THEN /\ resp' = OrgReply("registerOrganization", email, name, 500,
                                        "UnexpectedError", "none")
                    /\ UsersUntouched
                    /\ mail' = "none"
             ELSE /\ role' = With(role, email, "admin")
                  /\ organization' = With(organization, email, NewId)
                  /\ isApproved' = With(isApproved, email, TRUE)
                  /\ isActive' = With(isActive, email, TRUE)
                  /\ faceEnrolled' = With(faceEnrolled, email, FALSE)
                  /\ loginAttempts' = With(loginAttempts, email, 0)
                  /\ lockUntil' = With(lockUntil, email, NoTime)
                  /\ lastLogin' = With(lastLogin, email, NoTime)
                  /\ mail' = delivery
                  /\ resp' = OrgReply("registerOrganization", email, name,
                                      RegisteredStatus(delivery),
                                      IF RegisteredStatus(delivery) = 201
                                        THEN "none" ELSE "UnexpectedError",
                                      NewId)
  /\ OrgFrame

\* Organization.findById
FindOrgById(all, id) == {o \in all : o._id = id}

\* Object.assign(organization, value) for the name and isActive of the
\* validated body; an absent field leaves the stored one
Assign(o, name, active) ==
  [o EXCEPT !.name = IF name = Undefined THEN @ ELSE name,
            !.isActive = IF active = Undefined THEN @ ELSE active = "true"]

NamePatches == Names \cup {Undefined}

ActivePatches == {Undefined, "true", "false"}

\* PUT /api/organizations/:id
UpdateOrganization(actor, id, name, active) ==
  /\ Admitted(actor, {"super-admin"})
  /\ IF FindOrgById(orgs, id) = {}
       THEN /\ resp' = OrgReply("updateOrganization", actor, id, 404,
                                "OrganizationNotFound", "none")
            /\ UNCHANGED orgs
     ELSE LET o == CHOOSE x \in FindOrgById(orgs, id) : TRUE
          IN /\ orgs' = (orgs \ {o}) \cup {Assign(o, name, active)}
             /\ resp' = OrgReply("updateOrganization", actor, id, 200, "none", id)
  /\ UNCHANGED inserted
  /\ UsersUntouched
  /\ mail' = "none"
  /\ OrgFrame

\* User.countDocuments({organization: req.params.id})
userCount_Mut(id) == 0

userCount(id) == Cardinality({u \in UserIds : organization[u] = id})

\* DELETE /api/organizations/:id
DeleteOrganization(actor, id) ==
  /\ Admitted(actor, {"super-admin"})
  /\ IF FindOrgById(orgs, id) = {}
       THEN /\ resp' = OrgReply("deleteOrganization", actor, id, 404,
                                "OrganizationNotFound", "none")
            /\ UNCHANGED orgs
     ELSE IF userCount(id) > 0
       THEN /\ resp' = OrgReply("deleteOrganization", actor, id, 400,
                                "OrganizationNotEmpty", "none")
            /\ UNCHANGED orgs
     ELSE /\ orgs' = orgs \ FindOrgById(orgs, id)
          /\ resp' = OrgReply("deleteOrganization", actor, id, 200, "none", id)
  /\ UNCHANGED inserted
  /\ UsersUntouched
  /\ mail' = "none"
  /\ OrgFrame

\* Organization.findOne({inviteCode, isActive: true})
FindByInviteCode(all, code) == {o \in all : o.inviteCode = code /\ o.isActive}

\* GET /api/organizations/by-invite/:inviteCode; findOne answers with any one
\* of the documents that match
GetOrganizationByInviteCode(code) ==
  /\ IF FindByInviteCode(orgs, code) = {}
       THEN resp' = OrgReply("getOrganizationByInviteCode", "none", code, 404,
                             "InvalidInviteCode", "none")
     ELSE \E o \in FindByInviteCode(orgs, code) :
            resp' = OrgReply("getOrganizationByInviteCode", "none", code, 200, "none", o._id)
  /\ UNCHANGED <<orgs, inserted>>
  /\ UsersUntouched
  /\ mail' = "none"
  /\ OrgFrame

\* an empty directory and the super-admin, who belongs to no organization
InitOrg ==
  /\ role = [u \in {"root"} |-> "super-admin"]
  /\ organization = [u \in {"root"} |-> "none"]
  /\ isApproved = [u \in {"root"} |-> TRUE]
  /\ isActive = [u \in {"root"} |-> TRUE]
  /\ faceEnrolled = [u \in {"root"} |-> FALSE]
  /\ loginAttempts = [u \in {"root"} |-> 0]
  /\ lockUntil = [u \in {"root"} |-> NoTime]
  /\ lastLogin = [u \in {"root"} |-> NoTime]
  /\ events = EmptyBag
  /\ now = FirstInstant
  /\ resp = NoReply
  /\ listed = NoListing
  /\ orgs = {}
  /\ inserted = 0
  /\ rec = NoRec
  /\ streak = [u \in Users |-> 0]
  /\ fifthAt = [u \in Users |-> NoTime]
  /\ cleared = 0
  /\ IdleRace
  /\ IdleRecovery
  /\ IdleProfile

NextOrg ==
  \/ \E actor \in {"root"} \cup ManagerEmails, name \in Names, code \in InviteCodes :
       CreateOrganization(actor, name, code)
  \/ \E name \in Names, email \in ManagerEmails, pw \in ManagerPasswords, confirmed \in BOOLEAN,
        code \in InviteCodes, delivery \in Deliveries :
       RegisterOrganization(name, email, pw, confirmed, code, delivery)
  \/ \E actor \in {"root"} \cup ManagerEmails, id \in OrgIdsTried, name \in NamePatches,
        active \in ActivePatches : UpdateOrganization(actor, id, name, active)
  \/ \E actor \in {"root"} \cup ManagerEmails, id \in OrgIdsTried :
       DeleteOrganization(actor, id)
  \/ \E code \in CodesTried : GetOrganizationByInviteCode(code)

SpecOrg == InitOrg /\ [][NextOrg]_vars

----------------------------------------------------------------------------
(* Password recovery: forgotPassword stores the hash of a fresh token and  *)
(* the instant it expires; resetPassword finds the user by both.           *)

\* bound: tokens createPasswordResetToken hands out in one behaviour
MaxTokens == 2
\* bound: five-minute steps of the clock in the recovery specification
MaxResetSteps == 3

FiveMinutes == 5 * MsPerMinute

ResetInstants == {k * FiveMinutes : k \in 0..MaxResetSteps}

\* crypto.randomBytes(32).toString('hex'): 256 random bits, modelled as a
\* value that no earlier call returned
randomBytes == <<"t1", "t2", "t3", "t4", "t5", "t6">>

resetToken == randomBytes[Len(issued) + 1]

\* crypto.createHash('sha256').update(token).digest('hex')
sha256(token) == <<"sha256", token>>

\* 10 minutes
TokenLifetime_Mut == 20 * 60 * 1000

TokenLifetime == 10 * 60 * 1000

\* UserSchema.methods.createPasswordResetToken, then user.save
createPasswordResetToken(u) ==
  /\ resetPasswordToken' = [resetPasswordToken EXCEPT ![u] = sha256(resetToken)]
  /\ resetPasswordExpires' = [resetPasswordExpires EXCEPT ![u] = now + TokenLifetime]

ResetReply(op, u, token, status, error) ==
  [op |-> op, user |-> u, type |-> "none", status |-> status, error |-> error,
   by |-> op, target |-> token]

\* what no request for recovery changes
RecoveryFrame ==
  UNCHANGED <<now, isApproved, isActive, lastLogin, events, pc, req, found, doc, rec,
              streak, fifthAt, cleared, directoryVars, profileVars>>

EmailsTried == Users \cup {"nobody", Undefined}

\* POST /api/auth/forgot-password.  sendPasswordResetEmail catches what
\* sendEmail throws and returns false, and the handler does not read what it
\* returns; the handler's catch runs when the email service fails to load
ForgotPassword(email, delivery) ==
  /\ IF email = Undefined
       THEN /\ resp' = ResetReply("forgotPassword", "none", "none", 400, "EmailRequired")
            /\ UNCHANGED tokenVars
            /\ mail' = "none"
     ELSE IF email \notin DOMAIN password
       THEN /\ resp' = ResetReply("forgotPassword", "none", "none", 404, "UserNotFound")
            /\ UNCHANGED tokenVars
            /\ mail' = "none"
     ELSE /\ Len(issued) < MaxTokens
          /\ issued' = Append(issued, [token |-> resetToken, user |-> email, at |-> now])
          /\ mail' = delivery
          /\ IF delivery # "unavailable"
               THEN /\ createPasswordResetToken(email)
                    /\ resp' = ResetReply("forgotPassword", email, resetToken, 200, "none")
             ELSE /\ resetPasswordToken' = [resetPasswordToken EXCEPT ![email] = NoToken]
                  /\ resetPasswordExpires' = [resetPasswordExpires EXCEPT ![email] = NoTime]
                  /\ resp' = ResetReply("forgotPassword", email, resetToken, 500, "EmailNotSent")
          /\ UNCHANGED <<password, used>>
  /\ UNCHANGED <<loginAttempts, lockUntil>>
  /\ RecoveryFrame

\* User.findOne({resetPasswordToken: hashedToken, resetPasswordExpires: {$gt: Date.now()}})
FindByResetToken_Mut(hashedToken) ==
  {u \in DOMAIN password : resetPasswordToken[u] = hashedToken}

FindByResetToken(hashedToken) ==
  {u \in DOMAIN password : /\ resetPasswordToken[u] = hashedToken
                           /\ resetPasswordExpires[u] # NoTime
                           /\ resetPasswordExpires[u] > now}

\* password and confirmPassword of the request body
BodiesTried == {<<Undefined, Undefined>>, <<"secret2", Undefined>>, <<"secret2", "abc">>,
                <<"abc", "abc">>, <<"secret2", "secret2">>}

TokensTried == {issued[i].token : i \in 1..Len(issued)} \cup {"bogus"}

\* PATCH /api/auth/reset-password/:token
ResetPassword(token, pw, confirmPassword) ==
  /\ IF pw = Undefined \/ confirmPassword = Undefined
       THEN /\ resp' = ResetReply("resetPassword", "none", token, 400, "PasswordRequired")
            /\ UNCHANGED <<tokenVars, loginAttempts, lockUntil>>
     ELSE IF pw # confirmPassword
       THEN /\ resp' = ResetReply("resetPassword", "none", token, 400, "PasswordMismatch")
            /\ UNCHANGED <<tokenVars, loginAttempts, lockUntil>>
     ELSE IF Len(pw) < 6
       THEN /\ resp' = ResetReply("resetPassword", "none", token, 400, "PasswordTooShort")
            /\ UNCHANGED <<tokenVars, loginAttempts, lockUntil>>
     ELSE IF FindByResetToken(sha256(token)) = {}
       THEN /\ resp' = ResetReply("resetPassword", "none", token, 400, "InvalidOrExpiredToken")
            /\ UNCHANGED <<tokenVars, loginAttempts, lockUntil>>
     ELSE \E u \in FindByResetToken(sha256(token)) :
            /\ password' = [password EXCEPT ![u] = bcrypt(pw)]
            /\ resetPasswordToken' = [resetPasswordToken EXCEPT ![u] = NoToken]
            /\ resetPasswordExpires' = [resetPasswordExpires EXCEPT ![u] = NoTime]
            /\ loginAttempts' = [loginAttempts EXCEPT ![u] = 0]
            /\ lockUntil' = [lockUntil EXCEPT ![u] = NoTime]
            /\ used' = used \cup {token}
            /\ resp' = ResetReply("resetPassword", u, token, 200, "none")
            /\ UNCHANGED issued
  /\ mail' = "none"
  /\ RecoveryFrame

TickReset ==
  /\ \E t \in ResetInstants : t > now
  /\ now' = NextInstant(ResetInstants)
  /\ UNCHANGED <<isApproved, isActive, loginAttempts, lockUntil, lastLogin,
                 events, resp, pc, req, found, doc, rec, streak, fifthAt, cleared,
                 directoryVars, recoveryVars, profileVars>>

\* the accounts that five wrong passwords locked at the first instant
LockedTried == {{}, {"u1"}}

\* registered accounts, one of them possibly locked, none with a reset token
InitReset ==
  /\ now = 0
  /\ isApproved = [u \in Users |-> TRUE]
  /\ isActive = [u \in Users |-> TRUE]
  /\ lastLogin = [u \in Users |-> NoTime]
  /\ \E locked \in LockedTried :
       /\ loginAttempts = [u \in Users |-> IF u \in locked THEN MaxLoginAttempts ELSE 0]
       /\ lockUntil = [u \in Users |-> IF u \in locked THEN LockMs ELSE NoTime]
  /\ streak = [u \in Users |-> 0]
  /\ fifthAt = [u \in Users |-> NoTime]
  /\ cleared = 0
  /\ events = EmptyBag
  /\ resp = NoReply
  /\ rec = NoRec
  /\ IdleRace
  /\ IdleDirectory
  /\ IdleRecovery
  /\ IdleProfile

NextReset ==
  \/ \E email \in EmailsTried, delivery \in Deliveries : ForgotPassword(email, delivery)
  \/ \E token \in TokensTried, body \in BodiesTried :
       ResetPassword(token, body[1], body[2])
  \/ TickReset

SpecReset == InitReset /\ [][NextReset]_vars

----------------------------------------------------------------------------
(* Profiles: GET and PUT /api/users/profile/:id, behind authenticate and   *)
(* authorizeOwnerOrAdmin.                                                  *)

\* authorizeOwnerOrAdmin: the caller asks for their own id or is an admin
authorizeOwnerOrAdmin(u, id) == u = id \/ role[u] = "admin"

\* GET /api/users/profile/:id
GetUserProfile(actor, id) ==
  /\ Authenticated(actor)
  /\ authorizeOwnerOrAdmin(actor, id)
  /\ IF id \notin UserIds
       THEN resp' = AdminReply("getUserProfile", actor, id, "none", 404, "UserNotFound")
     ELSE IF actor # id /\ role[actor] \notin {"admin", "super-admin"}
       THEN resp' = AdminReply("getUserProfile", actor, id, "none", 403, "AccessDenied")
     ELSE IF role[actor] = "admin" /\ organization[actor] # organization[id]
       THEN resp' = AdminReply("getUserProfile", actor, id, "none", 403, "AccessDenied")
     ELSE resp' = AdminReply("getUserProfile", actor, id, "none", 200, "none")
  /\ listed' = NoListing
  /\ LoginUntouched
  /\ UNCHANGED <<now, isApproved, isActive, role, organization, faceEnrolled, events,
                 orgs, inserted, pc, req, found, doc, rec, streak, fifthAt, cleared,
                 recoveryVars, profileVars>>

\* department of the request body (values tried); updateProfileSchema wants
\* at least 2 characters
DepartmentsTried == {Undefined, "X", "Ops"}

\* updateProfileSchema.validate for the department
ValidProfile(dept) == dept = Undefined \/ Len(dept) >= 2

\* PUT /api/users/profile/:id
UpdateUserProfile(actor, id, dept) ==
  /\ Authenticated(actor)
  /\ authorizeOwnerOrAdmin(actor, id)
  /\ IF ~ValidProfile(dept)
       THEN /\ resp' = AdminReply("updateUserProfile", actor, id, "none", 400, "ValidationError")
            /\ UNCHANGED department
     ELSE IF id \notin UserIds
       THEN /\ resp' = AdminReply("updateUserProfile", actor, id, "none", 404, "UserNotFound")
            /\ UNCHANGED department
     ELSE IF actor # id /\ role[actor] \notin {"admin", "super-admin"}
       THEN /\ resp' = AdminReply("updateUserProfile", actor, id, "none", 403, "AccessDenied")
            /\ UNCHANGED department
     ELSE /\ department' = IF dept # Undefined THEN [department EXCEPT ![id] = dept]
                           ELSE department
          /\ resp' = AdminReply("updateUserProfile", actor, id, "none", 200, "none")
  /\ listed' = NoListing
  /\ LoginUntouched
  /\ UNCHANGED <<now, isApproved, isActive, role, organization, faceEnrolled, events,
                 orgs, inserted, pc, req, found, doc, rec, streak, fifthAt, cleared,
                 recoveryVars, aadhaarNumber, aadhaarVerified, otpStore>>

\* the staff with their departments; some of them not active
InitProfile ==
  /\ role = RoleOf
  /\ organization = OrganizationOf
  /\ isApproved = [u \in Staff |-> TRUE]
  /\ isActive \in [Staff -> BOOLEAN]
  /\ faceEnrolled = [u \in Staff |-> TRUE]
  /\ events = Ledger
  /\ now = FirstInstant
  /\ loginAttempts = [u \in Staff |-> 0]
  /\ lockUntil = [u \in Staff |-> NoTime]
  /\ lastLogin = [u \in Staff |-> NoTime]
  /\ resp = NoReply
  /\ listed = NoListing
  /\ orgs = {}
  /\ inserted = 0
  /\ rec = NoRec
  /\ streak = [u \in Users |-> 0]
  /\ fifthAt = [u \in Users |-> NoTime]
  /\ cleared = 0
  /\ department = [u \in Staff |-> "Sales"]
  /\ aadhaarNumber = [u \in Staff |-> "none"]
  /\ aadhaarVerified = [u \in Staff |-> FALSE]
  /\ otpStore = [a \in AadhaarNumbers |-> NoOtp]
  /\ IdleRace
  /\ IdleRecovery

NextProfile ==
  \/ \E actor \in Staff, id \in TargetIds : GetUserProfile(actor, id)
  \/ \E actor \in Staff, id \in TargetIds, dept \in DepartmentsTried :
       UpdateUserProfile(actor, id, dept)

SpecProfile == InitProfile /\ [][NextProfile]_vars

----------------------------------------------------------------------------
(* Self-registration and the Aadhaar link: POST /api/auth/register,        *)
(* POST /api/auth/register-with-org and the routes of /api/aadhaar.        *)

\* the emails that register (values tried); the email names the user
NewEmails == {"n1", "n2"}

\* aadhaarNumber of a request body (values tried)
NumbersTried == AadhaarNumbers \cup {Undefined}

\* UserSchema.role.enum
Roles == {"employee", "admin", "hr", "super-admin"}

\* role of the body of register-with-org (values tried)
RolesTried == {"employee", "admin", "boss"}

\* User.findOne({aadhaarNumber})
ExistingAadhaar(number) == {u \in UserIds : aadhaarNumber[u] = number}

\* new User({...}).save(): the schema defaults are isActive true,
\* aadhaarVerified false, faceEnrolled false, loginAttempts 0
NewUser(email, r, org, approved, number) ==
  /\ role' = With(role, email, r)
  /\ organization' = With(organization, email, org)
  /\ isApproved' = With(isApproved, email, approved)
  /\ isActive' = With(isActive, email, TRUE)
  /\ faceEnrolled' = With(faceEnrolled, email, FALSE)
  /\ loginAttempts' = With(loginAttempts, email, 0)
  /\ lockUntil' = With(lockUntil, email, NoTime)
  /\ lastLogin' = With(lastLogin, email, NoTime)
  /\ department' = With(department, email, "Sales")
  /\ aadhaarNumber' = With(aadhaarNumber, email, IF number = Undefined THEN "none" ELSE number)
  /\ aadhaarVerified' = With(aadhaarVerified, email, FALSE)

NoNewUser ==
  UNCHANGED <<role, organization, isApproved, isActive, faceEnrolled, loginAttempts,
              lockUntil, lastLogin, department, aadhaarNumber, aadhaarVerified>>

\* what no registration changes
RegisterFrame ==
  UNCHANGED <<now, events, listed, orgs, inserted, pc, req, found, doc, rec, streak,
              fifthAt, cleared, recoveryVars, otpStore>>

\* POST /api/auth/register: the user is created with the default role and
\* isApproved of the schema and no organization (the validator of the path
\* organization is not run on an undefined value)
Register(email, number) ==
  /\ IF email \in UserIds
       THEN /\ resp' = AdminReply("register", email, number, "none", 400, "UserExists")
            /\ NoNewUser
     ELSE IF number # Undefined /\ ExistingAadhaar(number) # {}
       THEN /\ resp' = AdminReply("register", email, number, "none", 400, "AadhaarRegistered")
            /\ NoNewUser
     ELSE /\ NewUser(email, "employee", "none", FALSE, number)
          /\ resp' = AdminReply("register", email, number, "none", 201, "none")
  /\ RegisterFrame

\* line 219: isApproved: role === 'admin'
AutoApproved(r) == r = "admin"

\* POST /api/auth/register-with-org
RegisterWithOrganization(email, r, org, number) ==
  /\ IF email \in UserIds
       THEN /\ resp' = AdminReply("registerWithOrganization", email, number, r, 400,
                                  "UserExists")
            /\ NoNewUser
     ELSE IF FindOrgById(orgs, org) = {}
       THEN /\ resp' = AdminReply("registerWithOrganization", email, number, r, 400,
                                  "OrganizationNotFound")
            /\ NoNewUser
     ELSE IF number # Undefined /\ ExistingAadhaar(number) # {}
       THEN /\ resp' = AdminReply("registerWithOrganization", email, number, r, 400,
                                  "AadhaarRegistered")
            /\ NoNewUser
     ELSE IF r \notin Roles
       THEN /\ resp' = AdminReply("registerWithOrganization", email, number, r, 500,
                                  "UnexpectedError")
            /\ NoNewUser
     ELSE /\ NewUser(email, r, org, AutoApproved(r), number)
          /\ resp' = AdminReply("registerWithOrganization", email, number, r, 201, "none")
  /\ RegisterFrame

\* bound: six-minute steps of the clock in the Aadhaar specification
MaxOtpSteps == 2

SixMinutes == 6 * MsPerMinute

OtpInstants == {k * SixMinutes : k \in 0..MaxOtpSteps}

\* line 168: 2 minutes between two OTP requests for one number
OtpGap == 2 * 60 * 1000

\* line 242: an OTP request lasts 10 minutes
OtpLifetime == 10 * 60 * 1000

\* line 251
MaxOtpAttempts == 3

\* User.findOne({aadhaarNumber, aadhaarVerified: true})
VerifiedHolders(number) ==
  {u \in UserIds : aadhaarNumber[u] = number /\ aadhaarVerified[u]}

\* what no request to /api/aadhaar changes
AadhaarFrame ==
  UNCHANGED <<now, isApproved, isActive, role, organization, faceEnrolled, events,
              listed, orgs, inserted, pc, req, found, doc, rec, streak, fifthAt, cleared,
              recoveryVars, department>>

\* POST /api/aadhaar/send-otp.  limited tells whether sensitiveOperationLimit
\* answers (its key holds req.ip, which the caller chooses); sent tells
\* whether AadhaarService.sendOTP returned
SendOtp(u, number, limited, sent) ==
  /\ Authenticated(u)
  /\ IF limited
       THEN /\ resp' = AdminReply("sendOtp", u, number, "none", 429, "TooManyAttempts")
            /\ UNCHANGED otpStore
     ELSE IF aadhaarNumber[u] # number /\ VerifiedHolders(number) # {}
       THEN /\ resp' = AdminReply("sendOtp", u, number, "none", 400, "AadhaarAlreadyVerified")
            /\ UNCHANGED otpStore
     ELSE IF otpStore[number].timestamp # NoTime
               /\ now - otpStore[number].timestamp < OtpGap
       THEN /\ resp' = AdminReply("sendOtp", u, number, "none", 429, "WaitBeforeOtp")
            /\ UNCHANGED otpStore
     ELSE IF ~sent
       THEN /\ resp' = AdminReply("sendOtp", u, number, "none", 500, "UnexpectedError")
            /\ UNCHANGED otpStore
     ELSE /\ otpStore' = [otpStore EXCEPT
                            ![number] = [userId |-> u, timestamp |-> now, attempts |-> 0]]
          /\ resp' = AdminReply("sendOtp", u, number, "none", 200, "none")
  /\ LoginUntouched
  /\ UNCHANGED <<aadhaarNumber, aadhaarVerified>>
  /\ AadhaarFrame

\* aadhaarNumber of the OTP requests (values tried)
OtpNumbersTried == {"123412341234"}

\* what AadhaarService.verifyOTP does: it confirms the OTP, rejects it, or
\* throws
Verifications == {"verified", "rejected", "error"}

\* POST /api/aadhaar/verify-otp
VerifyOtp(u, number, limited, verification) ==
  /\ Authenticated(u)
  /\ LET otpData == otpStore[number]
     IN IF limited
          THEN /\ resp' = AdminReply("verifyOtp", u, number, "none", 429, "TooManyAttempts")
               /\ UNCHANGED <<otpStore, aadhaarNumber, aadhaarVerified>>
        ELSE IF otpData = NoOtp \/ otpData.userId # u
          THEN /\ resp' = AdminReply("verifyOtp", u, number, "none", 400, "InvalidOtpRequest")
               /\ UNCHANGED <<otpStore, aadhaarNumber, aadhaarVerified>>
        ELSE IF now - otpData.timestamp > OtpLifetime
          THEN /\ otpStore' = [otpStore EXCEPT ![number] = NoOtp]
               /\ resp' = AdminReply("verifyOtp", u, number, "none", 400, "OtpExpired")
               /\ UNCHANGED <<aadhaarNumber, aadhaarVerified>>
        ELSE IF otpData.attempts >= MaxOtpAttempts
          THEN /\ otpStore' = [otpStore EXCEPT ![number] = NoOtp]
               /\ resp' = AdminReply("verifyOtp", u, number, "none", 400, "MaxOtpAttempts")
               /\ UNCHANGED <<aadhaarNumber, aadhaarVerified>>
        ELSE IF verification = "error"
          THEN /\ resp' = AdminReply("verifyOtp", u, number, "none", 500, "UnexpectedError")
               /\ UNCHANGED <<otpStore, aadhaarNumber, aadhaarVerified>>
        ELSE IF verification = "rejected"
          THEN /\ otpStore' = [otpStore EXCEPT ![number].attempts = @ + 1]
               /\ resp' = AdminReply("verifyOtp", u, number, "none", 400,
                                     "OtpVerificationFailed")
               /\ UNCHANGED <<aadhaarNumber, aadhaarVerified>>
        ELSE /\ aadhaarNumber' = [aadhaarNumber EXCEPT ![u] = number]
             /\ aadhaarVerified' = [aadhaarVerified EXCEPT ![u] = TRUE]
             /\ otpStore' = [otpStore EXCEPT ![number] = NoOtp]
             /\ resp' = AdminReply("verifyOtp", u, number, "none", 200, "none")
  /\ LoginUntouched
  /\ AadhaarFrame

\* DELETE /api/aadhaar/unlink
Unlink(u) ==
  /\ Authenticated(u)
  /\ IF aadhaarNumber[u] = "none"
       THEN /\ resp' = AdminReply("unlink", u, "none", "none", 400, "NoAadhaarLinked")
            /\ UNCHANGED <<aadhaarNumber, aadhaarVerified>>
     ELSE IF role[u] # "admin"
       THEN /\ resp' = AdminReply("unlink", u, "none", "none", 403, "AdminRequired")
            /\ UNCHANGED <<aadhaarNumber, aadhaarVerified>>
     ELSE /\ aadhaarNumber' = [aadhaarNumber EXCEPT ![u] = "none"]
          /\ aadhaarVerified' = [aadhaarVerified EXCEPT ![u] = FALSE]
          /\ resp' = AdminReply("unlink", u, "none", "none", 200, "none")
  /\ UNCHANGED otpStore
  /\ LoginUntouched
  /\ AadhaarFrame

TickOtp ==
  /\ \E t \in OtpInstants : t > now
  /\ now' = NextInstant(OtpInstants)
  /\ UNCHANGED <<isApproved, isActive, loginAttempts, lockUntil, lastLogin,
                 events, resp, pc, req, found, doc, rec, streak, fifthAt, cleared,
                 directoryVars, recoveryVars, profileVars>>

\* the organization that the registrations join
FirstOrganization ==
  [_id |-> ObjectIds[1], name |-> "Acme", isActive |-> TRUE, inviteCode |-> "AB12CD34"]

\* what the registrations and the Aadhaar routes leave at one value
IdleRegister ==
  /\ events = EmptyBag
  /\ resp = NoReply
  /\ listed = NoListing
  /\ orgs = {FirstOrganization}
  /\ inserted = 1
  /\ rec = NoRec
  /\ streak = [u \in Users |-> 0]
  /\ fifthAt = [u \in Users |-> NoTime]
  /\ cleared = 0
  /\ otpStore = [a \in AadhaarNumbers |-> NoOtp]
  /\ IdleRace
  /\ IdleRecovery

\* one organization and no user yet
InitAadhaar ==
  /\ now = 0
  /\ role = <<>>
  /\ organization = <<>>
  /\ isApproved = <<>>
  /\ isActive = <<>>
  /\ faceEnrolled = <<>>
  /\ loginAttempts = <<>>
  /\ lockUntil = <<>>
  /\ lastLogin = <<>>
  /\ department = <<>>
  /\ aadhaarNumber = <<>>
  /\ aadhaarVerified = <<>>
  /\ IdleRegister

NextAadhaar ==
  \/ \E email \in NewEmails, number \in NumbersTried : Register(email, number)
  \/ \E email \in NewEmails, r \in RolesTried, org \in {ObjectIds[1], ObjectIds[2]},
        number \in NumbersTried : RegisterWithOrganization(email, r, org, number)
  \/ \E u \in NewEmails, number \in OtpNumbersTried, limited \in BOOLEAN, sent \in BOOLEAN :
       SendOtp(u, number, limited, sent)
  \/ \E u \in NewEmails, number \in OtpNumbersTried, limited \in BOOLEAN,
        verification \in Verifications : VerifyOtp(u, number, limited, verification)
  \/ \E u \in NewEmails : Unlink(u)
  \/ TickOtp

SpecAadhaar == InitAadhaar /\ [][NextAadhaar]_vars

\* the manager whom registerOrganization stored with the first organization
FirstManager == "m1"

\* the first organization with its manager, approved and active
InitRegister ==
  /\ now = FirstInstant
  /\ role = [u \in {FirstManager} |-> "admin"]
  /\ organization = [u \in {FirstManager} |-> FirstOrganization._id]
  /\ isApproved = [u \in {FirstManager} |-> TRUE]
  /\ isActive = [u \in {FirstManager} |-> TRUE]
  /\ faceEnrolled = [u \in {FirstManager} |-> FALSE]
  /\ loginAttempts = [u \in {FirstManager} |-> 0]
  /\ lockUntil = [u \in {FirstManager} |-> NoTime]
  /\ lastLogin = [u \in {FirstManager} |-> NoTime]
  /\ department = [u \in {FirstManager} |-> "Management"]
  /\ aadhaarNumber = [u \in {FirstManager} |-> "none"]
  /\ aadhaarVerified = [u \in {FirstManager} |-> FALSE]
  /\ IdleRegister

NextRegister ==
  \/ \E email \in NewEmails : Register(email, Undefined)
  \/ \E email \in NewEmails, r \in RolesTried, org \in {ObjectIds[1], ObjectIds[2]} :
       RegisterWithOrganization(email, r, org, Undefined)
  \/ \E actor \in {FirstManager} \cup NewEmails, id \in {FirstManager, "nobody"} \cup NewEmails,
        action \in ActionsTried : PerformAdminAction(actor, id, action)

SpecRegister == InitRegister /\ [][NextRegister]_vars

----------------------------------------------------------------------------
(* The ledger as the claims describe it, stated without the handler's      *)
(* query: a user's events of the current calendar day and their latest     *)
(* times.                                                                  *)

MaxOf(S) == CHOOSE x \in S : \A y \in S : y <= x

TimesToday(u, type) ==
  {e.checkInTime : e \in {f \in BagToSet(events) :
      /\ f.user = u
      /\ f.type = type
      /\ f.checkInTime \div DayMs = now \div DayMs}}

\* the most recent check-in of today is not closed
OpenToday(u) ==
  /\ TimesToday(u, "check-in") # {}
  /\ \/ TimesToday(u, "check-out") = {}
     \/ MaxOf(TimesToday(u, "check-out")) < MaxOf(TimesToday(u, "check-in"))

\* no check-in today, or today's latest check-out is later than the latest check-in
ClosedToday(u) ==
  \/ TimesToday(u, "check-in") = {}
  \/ /\ TimesToday(u, "check-out") # {}
     /\ MaxOf(TimesToday(u, "check-out")) > MaxOf(TimesToday(u, "check-in"))

\* this step answers a markAttendance request of user u
MarkStep(u, type) ==
  /\ now' = now
  /\ resp'.op = "markAttendance" /\ resp'.user = u /\ resp'.type = type

OpenCheckIns(evs, u) ==
  {e \in BagToSet(evs) :
     /\ e.user = u
     /\ e.type = "check-in"
     /\ ~ \E f \in BagToSet(evs) :
            /\ f.user = u
            /\ f.type = "check-out"
            /\ f.checkInTime >= e.checkInTime}

CountOpenCheckIns(evs, u) ==
  BagCardinality([e \in OpenCheckIns(evs, u) |-> evs[e]])

\* C3: after any sequence of non-overlapping requests each user has at most
\* one open check-in.
C3_OneOpenCheckIn == \A u \in Users : CountOpenCheckIns(events, u) <= 1

\* C4: however two check-in requests of one user interleave, at most one of
\* them creates a check-in event: no user ever has two open check-ins.
C4_RaceOneOpenCheckIn == \A u \in Users : CountOpenCheckIns(events, u) <= 1

\* minutes from a to b as the ledger counts them
MinutesBetween(a, b) == (b - a) \div MsPerMinute

NonNegative(x) == IF x > 0 THEN x ELSE 0

\* the documents a step has added to the collection
Created == {e \in BagToSet(events') : CopiesIn(e, events') > CopiesIn(e, events)}

\* C5: a successful check-out stores workingHours = max(0, minutes from the
\* open check-in to the check-out - breakTime) on the created event, and
\* overtime = workingHours - 480 when workingHours exceeds 480.
C5_CheckOutMetrics ==
  [][\A u \in Users :
       (MarkStep(u, "check-out") /\ resp'.status = 201)
       => /\ Created # {}
          /\ \A created \in Created :
               LET worked == NonNegative(
                               MinutesBetween(MaxOf(TimesToday(u, "check-in")),
                                              created.checkOutTime)
                               - created.breakTime)
               IN /\ created.workingHours = worked
                  /\ worked > 480 => created.overtime = worked - 480]_vars

\* C7 as stated: a request of a user whose isApproved is false fails with
\* NotApproved and one of a user whose isActive is false fails with
\* AccountInactive; neither creates an event.
C7_BothGates ==
  [][\A u \in Users, type \in Types :
       MarkStep(u, type)
       => /\ ~isApproved[u] => (resp'.error = "NotApproved" /\ events' = events)
          /\ ~isActive[u] => (resp'.error = "AccountInactive" /\ events' = events)]_vars

\* C7 amended: a request of a user whose isActive is false fails with
\* AccountInactive whatever isApproved is; a request of an active user whose
\* isApproved is false fails with NotApproved; neither creates an event.
C7_GateOrder ==
  [][\A u \in Users, type \in Types :
       MarkStep(u, type)
       => /\ ~isActive[u] => (resp'.error = "AccountInactive" /\ events' = events)
          /\ (isActive[u] /\ ~isApproved[u])
               => (resp'.error = "NotApproved" /\ events' = events)]_vars

\* a user that is neither approved nor active was just turned away while
\* another user's events are on the ledger
C7_Witness ==
  /\ resp.op = "markAttendance"
  /\ resp.error = "AccountInactive"
  /\ ~isApproved[resp.user] /\ ~isActive[resp.user]
  /\ BagCardinality(events) > 0

\* C6: after every call of markCheckOut, a repeated one included,
\* workingHours = max(0, floor(minutes(checkOutTime - checkInTime)) - breakTime)
\* and overtime = max(0, workingHours - 480).
C6_CheckOutMetrics ==
  rec.calls > 0 =>
    /\ rec.workingHours =
         NonNegative(MinutesBetween(rec.checkInTime, rec.checkOutTime) - rec.breakTime)
    /\ rec.overtime = NonNegative(rec.workingHours - 480)

----------------------------------------------------------------------------
(* Lockout *)

\* this step answers an authenticate call for account u
AuthStep(u) ==
  /\ now' = now
  /\ resp'.op = "authenticate" /\ resp'.user = u

TwoHours == 2 * 60 * MsPerMinute

C9_FifthAnsweredLocked ==
  [][\A u \in Users :
       (AuthStep(u) /\ streak[u] = 4 /\ streak'[u] = 5)
       => resp'.error = "AccountLocked"]_vars

\* C9 amended: the fifth wrong password in a row is answered with
\* InvalidCredentials and sets the lock; AccountLocked is the answer from the
\* sixth attempt on.
C9_FifthAnsweredInvalid ==
  [][\A u \in Users :
       AuthStep(u) =>
         /\ (streak[u] = 4 /\ streak'[u] = 5)
              => (resp'.error = "InvalidCredentials" /\ lockUntil'[u] > now)
         /\ (streak[u] = 5 /\ fifthAt[u] # NoTime /\ now < fifthAt[u] + TwoHours)
              => resp'.error = "AccountLocked"]_vars

\* the fifth wrong password has just been answered
C9_Witness ==
  \E u \in Users :
    /\ resp.op = "authenticate" /\ resp.user = u /\ resp.type = "wrong"
    /\ resp.error = "InvalidCredentials"
    /\ streak[u] = 5 /\ fifthAt[u] = now
    /\ loginAttempts[u] = 5

\* C10: a call on an account whose lock timestamp is in the future fails and
\* leaves the failure counter and lockUntil as they were, whether the
\* password is right or wrong.
C10_LockedCallConsumesNothing ==
  [][\A u \in Users :
       (AuthStep(u) /\ lockUntil[u] # NoTime /\ lockUntil[u] > now)
       => /\ resp'.error # "none"
          /\ loginAttempts'[u] = loginAttempts[u]
          /\ lockUntil'[u] = lockUntil[u]]_vars

\* a wrong password has just been turned away from a locked account, half
\* an hour or more into the lock
C10_Witness ==
  \E u \in Users :
    /\ resp.op = "authenticate" /\ resp.user = u /\ resp.type = "wrong"
    /\ resp.error = "AccountLocked"
    /\ lockUntil[u] > now /\ lockUntil[u] < now + TwoHours
    /\ loginAttempts[u] = 5

\* C11: a successful login on an account with fewer than 5 recorded failures
\* sets the failure counter to 0 and leaves no lock; counted from the latest
\* successful login, the first four wrong passwords leave the account
\* unlocked and the fifth one locks it.
C11_SuccessResets ==
  [][\A u \in Users :
       AuthStep(u) =>
         /\ (resp'.error = "none" /\ loginAttempts[u] < 5)
              => (loginAttempts'[u] = 0 /\ lockUntil'[u] = NoTime)
         /\ (resp'.type = "wrong" /\ streak'[u] = streak[u] + 1 /\ streak'[u] < 5)
              => (loginAttempts'[u] = streak'[u] /\ lockUntil'[u] = NoTime)
         /\ (resp'.type = "wrong" /\ streak[u] = 4 /\ streak'[u] = 5)
              => (loginAttempts'[u] = 5 /\ lockUntil'[u] = now + TwoHours)]_vars

\* the right password has just been accepted on an account that had between
\* one and four failures recorded
C11_Witness ==
  \E u \in Users :
    /\ resp.op = "authenticate" /\ resp.user = u
    /\ resp.type = "right" /\ resp.error = "none"
    /\ cleared \in 1..4
    /\ loginAttempts[u] = 0 /\ lockUntil[u] = NoTime /\ streak[u] = 0

\* C12: whenever the lock of an account is no longer in the future, the
\* exact instant now = lockUntil included, a call is not answered with
\* AccountLocked, and a wrong password sets the failure counter to 1 and
\* clears the lock.
C12_ExpiredLockRestarts ==
  [][\A u \in Users :
       (AuthStep(u) /\ lockUntil[u] # NoTime /\ now >= lockUntil[u])
       => /\ resp'.error # "AccountLocked"
          /\ resp'.type = "wrong"
               => (loginAttempts'[u] = 1 /\ lockUntil'[u] = NoTime)]_vars

----------------------------------------------------------------------------
(* Tenant isolation *)

\* this step answers a request to op
AdminStep(op) == resp'.op = op

\* the stored fields of user id
UserDoc(id) ==
  [role |-> role[id], organization |-> organization[id], isApproved |-> isApproved[id],
   isActive |-> isActive[id], faceEnrolled |-> faceEnrolled[id],
   loginAttempts |-> loginAttempts[id], lockUntil |-> lockUntil[id],
   lastLogin |-> lastLogin[id]]

EventsOf(id) == {e \in BagToSet(events) : e.user = id}

\* C13: performAdminAction with any of the five actions, and deleteUser,
\* issued by an admin against a stored user of another organization are
\* answered 403 CrossOrganizationAccess; the user is still stored with every
\* field as it was, and so are the attendance events of that user.
C13_CrossOrganizationUser ==
  [][\A actor \in Staff, id \in Staff :
       (/\ \/ AdminStep("performAdminAction") /\ resp'.type \in AdminActions
           \/ AdminStep("deleteUser")
        /\ resp'.user = actor /\ resp'.target = id
        /\ actor \in UserIds /\ id \in UserIds
        /\ role[actor] = "admin"
        /\ organization[id] # organization[actor])
       => /\ resp'.status = 403 /\ resp'.error = "CrossOrganizationAccess"
          /\ id \in DOMAIN role'
          /\ UserDoc(id)' = UserDoc(id)
          /\ EventsOf(id)' = EventsOf(id)]_vars

\* the admin of orgA has just been refused the deletion of the employee of
\* orgB, whose attendance event is on the ledger
C13_Witness ==
  /\ resp.op = "deleteUser" /\ resp.status = 403
  /\ resp.user \in UserIds /\ resp.target \in UserIds
  /\ role[resp.user] = "admin" /\ organization[resp.user] = "orgA"
  /\ organization[resp.target] = "orgB"
  /\ EventsOf(resp.target) # {}

\* C14: updateAttendance and deleteAttendance issued by an admin on a stored
\* attendance event of another organization are answered 403
\* CrossOrganizationAccess; the event is still stored with every field as it
\* was.
C14_CrossOrganizationRecord ==
  [][\A actor \in Staff, e \in BagToSet(events) :
       (/\ AdminStep("updateAttendance") \/ AdminStep("deleteAttendance")
        /\ resp'.user = actor /\ resp'.target = e._id
        /\ role[actor] = "admin"
        /\ e.organization # organization[actor])
       => /\ resp'.status = 403 /\ resp'.error = "CrossOrganizationAccess"
          /\ e \in BagToSet(events')
          /\ events' = events]_vars

\* the admin of orgA has just been refused an update of the event of orgB
C14_Witness ==
  /\ resp.op = "updateAttendance" /\ resp.status = 403
  /\ role[resp.user] = "admin" /\ organization[resp.user] = "orgA"
  /\ \E e \in BagToSet(events) : e._id = resp.target /\ e.organization = "orgB"

\* C15: a listing or report answered to a caller whose role is admin or hr
\* is computed only from users and attendance events of the caller's
\* organization.
C15_ListingsScoped ==
  listed.role \in {"admin", "hr"} =>
    /\ \A u \in listed.users : u.organization = listed.organization
    /\ \A e \in listed.events : e.organization = listed.organization

\* C16: performAdminAction with deactivate or reject on the actor's own
\* account is answered SelfActionForbidden and leaves the actor's isActive
\* and isApproved as they were; no performAdminAction leaves its actor
\* inactive.
C16_SelfAction ==
  [][\A actor \in Staff :
       (AdminStep("performAdminAction") /\ resp'.user = actor)
       => /\ (resp'.target = actor /\ resp'.type \in {"deactivate", "reject"})
               => /\ resp'.error = "SelfActionForbidden"
                  /\ isActive'[actor] = isActive[actor]
                  /\ isApproved'[actor] = isApproved[actor]
          /\ isActive'[actor]]_vars

\* an approved, active admin has just been refused the rejection of their
\* own account
C16_Witness ==
  /\ resp.op = "performAdminAction" /\ resp.error = "SelfActionForbidden"
  /\ resp.type = "reject" /\ resp.target = resp.user
  /\ role[resp.user] = "admin"
  /\ isActive[resp.user] /\ isApproved[resp.user]

----------------------------------------------------------------------------
(* Tenant directory *)

\* the users that reference organization id
Members(id) == {u \in UserIds : organization[u] = id}

\* C17: deleteOrganization on a stored organization that a user references
\* is answered OrganizationNotEmpty and removes nothing; on a stored
\* organization that no user references it removes that organization and
\* nothing else, so that the lookups by its id and by its invite code find
\* nothing; on an id that is not stored, as after a delete, it is answered
\* not found.
C17_DeleteOrganization ==
  [][\A id \in OrgIdsTried :
       (AdminStep("deleteOrganization") /\ resp'.target = id)
       => /\ (FindOrgById(orgs, id) # {} /\ Members(id) # {})
               => /\ resp'.error = "OrganizationNotEmpty"
                  /\ orgs' = orgs
                  /\ organization' = organization
          /\ (FindOrgById(orgs, id) # {} /\ Members(id) = {})
               => /\ resp'.status = 200
                  /\ orgs' = orgs \ FindOrgById(orgs, id)
                  /\ FindOrgById(orgs', id) = {}
                  /\ \A o \in FindOrgById(orgs, id) :
                       FindByInviteCode(orgs', o.inviteCode) = {}
          /\ FindOrgById(orgs, id) = {}
               => (resp'.error = "OrganizationNotFound" /\ orgs' = orgs)]_vars

\* a delete of an organization that was stored and has been deleted has just
\* been answered not found, while an organization with a member is stored
C17_Witness ==
  /\ resp.op = "deleteOrganization" /\ resp.error = "OrganizationNotFound"
  /\ \E n \in 1..inserted : ObjectIds[n] = resp.target
  /\ \E o \in orgs : Members(o._id) # {}

\* C18: the lookup by the invite code of an active organization answers with
\* that organization and no other; the lookup by a code that no stored
\* organization has, or only an inactive one, is answered InvalidInviteCode.
C18_InviteRoundTrip ==
  [][\A code \in CodesTried :
       (AdminStep("getOrganizationByInviteCode") /\ resp'.target = code)
       => /\ \A o \in orgs :
               (o.isActive /\ o.inviteCode = code)
               => (resp'.status = 200 /\ resp'.found = o._id)
          /\ (~ \E o \in orgs : o.isActive /\ o.inviteCode = code)
               => (resp'.error = "InvalidInviteCode" /\ resp'.found = "none")]_vars

\* the lookup has just answered with an active organization while an
\* inactive one with another code is stored
C18_Witness ==
  /\ resp.op = "getOrganizationByInviteCode" /\ resp.status = 200
  /\ \E o \in orgs : o._id = resp.found /\ o.isActive /\ o.inviteCode = resp.target
  /\ \E o \in orgs : ~o.isActive /\ o.inviteCode # resp.target

\* C19: no two stored organizations with isActive = true have the same name.
C19_UniqueActiveNames ==
  \A o1, o2 \in orgs :
    (o1.isActive /\ o2.isActive /\ o1.name = o2.name) => o1 = o2

\* the step is the answer to a resetPassword request made with token tk
ResetStep(tk) ==
  /\ now' = now
  /\ resp'.op = "resetPassword" /\ resp'.target = tk

TenMinutes == 10 * MsPerMinute

AccountsUntouched ==
  UNCHANGED <<password, resetPasswordToken, resetPasswordExpires, loginAttempts,
              lockUntil, lastLogin, isApproved, isActive, role, organization,
              faceEnrolled, events, orgs>>

----------------------------------------------------------------------------
(* Registration of an organization and the email service *)

\* the organizations and the users that the step stores
AddedOrgs == orgs' \ orgs

AddedUsers == (DOMAIN role') \ (DOMAIN role)

\* C21: registerOrganization creates the organization and its first admin
\* user as one unit of work: whether it ends with success or with a failure,
\* it has stored both an organization and its admin user or neither.
C21_OneUnitOfWork ==
  [][AdminStep("registerOrganization") =>
       /\ (AddedOrgs = {}) <=> (AddedUsers = {})
       /\ \A o \in AddedOrgs : \E u \in AddedUsers :
            role'[u] = "admin" /\ organization'[u] = o._id]_vars

\* C22: the outcome of registerOrganization does not depend on the email
\* service: when the welcome email is not delivered, the organization and
\* its admin user are stored and the answer is the success answer.
C22_MailBestEffort ==
  [][(AdminStep("registerOrganization") /\ mail' \in {"failed", "unavailable"}) =>
       /\ resp'.status = 201
       /\ resp'.error = "none"
       /\ \E o \in AddedOrgs :
            /\ o._id = resp'.found
            /\ AddedUsers = {resp'.user}
            /\ role'[resp'.user] = "admin"
            /\ organization'[resp'.user] = o._id
            /\ isApproved'[resp'.user] /\ isActive'[resp'.user]]_vars

\* an organization was registered while the welcome email failed
C22_Witness ==
  /\ resp.op = "registerOrganization"
  /\ mail = "failed"
  /\ resp.status = 201
  /\ resp.user \in DOMAIN role
  /\ \E o \in orgs : o._id = resp.found /\ organization[resp.user] = o._id

\* this step answers a forgotPassword request
ForgotStep ==
  /\ now' = now
  /\ resp'.op = "forgotPassword"

\* C27: when the password-reset email cannot be delivered, forgotPassword
\* clears the user's stored reset token and expiry and reports a failure.
C27_UndeliveredTokenCleared ==
  [][(ForgotStep /\ mail' \in {"failed", "unavailable"}) =>
       /\ resp'.status # 200
       /\ resetPasswordToken'[resp'.user] = NoToken
       /\ resetPasswordExpires'[resp'.user] = NoTime]_vars

----------------------------------------------------------------------------
(* Edits of attendance events *)

\* the status that an approval of the patch stands for
StatusOf(approval) == IF approval = "true" THEN "approved" ELSE "rejected"

\* the fields an edit may change
Editable == {"notes", "status", "modifiedBy", "modifiedAt"}

\* C23: a successful updateAttendance by an admin of the event's
\* organization applies the notes and the approval status of the patch to
\* the stored event, stamps modifiedBy and modifiedAt on it, and leaves every
\* other field of the event unchanged.
C23_PatchApplied ==
  [][\A e \in BagToSet(events) :
       (/\ AdminStep("updateAttendance")
        /\ resp'.status = 200
        /\ resp'.target = e._id
        /\ role[resp'.user] = "admin"
        /\ organization[resp'.user] = e.organization)
       => \E e2 \in BagToSet(events') :
            /\ e2._id = e._id
            /\ \A f \in (DOMAIN e) \ Editable : e2[f] = e[f]
            /\ resp'.note # Undefined => e2.notes = resp'.note
            /\ resp'.isApproved # Undefined => e2.status = StatusOf(resp'.isApproved)
            /\ "modifiedBy" \in DOMAIN e2 /\ e2.modifiedBy = resp'.user
            /\ "modifiedAt" \in DOMAIN e2 /\ e2.modifiedAt = now]_vars

----------------------------------------------------------------------------
(* What an admin learns about other organizations *)

\* what the step answers: the status and the error
Answered == <<resp'.status, resp'.error>>

\* the request of the step names a user of another organization than the
\* one of the admin who sends it
ForeignUser(actor, id) ==
  id \in UserIds /\ organization[id] # organization[actor]

\* C24: for an org-scoped admin, the answer to an admin operation on the id
\* of a user of another organization is the answer to the same operation on
\* an id that does not exist, so that the caller cannot learn whether a
\* foreign resource exists.
C24_NoExistenceLeak ==
  [][\A actor \in Staff :
       (/\ AdminStep("performAdminAction") \/ AdminStep("deleteUser")
        /\ resp'.user = actor
        /\ role[actor] = "admin"
        /\ resp'.type \in AdminActions \cup {"none"})
       => /\ resp'.target \notin UserIds => Answered = <<404, "UserNotFound">>
          /\ ForeignUser(actor, resp'.target) => Answered = <<404, "UserNotFound">>]_vars

\* C25: updateUserProfile called by an admin of one organization on a user
\* of another organization is rejected with an authorization error and
\* leaves the profile of that user unchanged.
C25_CrossOrganizationProfile ==
  [][\A actor \in Staff :
       (/\ AdminStep("updateUserProfile")
        /\ resp'.user = actor
        /\ role[actor] = "admin"
        /\ ForeignUser(actor, resp'.target))
       => /\ resp'.status = 403
          /\ department'[resp'.target] = department[resp'.target]]_vars

----------------------------------------------------------------------------
(* The Aadhaar link *)

\* C26: no two distinct users hold the same aadhaarNumber, and in particular
\* no two users are aadhaarVerified for the same number.
C26_UniqueAadhaar ==
  \A u, v \in UserIds :
    (u # v /\ aadhaarNumber[u] # "none") => aadhaarNumber[u] # aadhaarNumber[v]

----------------------------------------------------------------------------
(* Self-registration and approval *)

\* this step answers a public self-registration
RegisterStep == AdminStep("register") \/ AdminStep("registerWithOrganization")

\* this step is the approval of u by an admin of the organization of u
ApprovedByAdmin(u) ==
  /\ AdminStep("performAdminAction")
  /\ resp'.type = "approve" /\ resp'.target = u /\ resp'.status = 200
  /\ role[resp'.user] = "admin"
  /\ organization[resp'.user] = organization[u]

\* C30: no public self-registration yields an approved account: every user
\* created by register or registerWithOrganization has isApproved false,
\* whatever role the request body asks for, and a user becomes approved only
\* when an admin of the user's organization performs approve.
C30_SelfRegistrationPending ==
  [][/\ RegisterStep => \A u \in AddedUsers : ~isApproved'[u]
     /\ \A u \in UserIds \cap (DOMAIN isApproved') :
          (~isApproved[u] /\ isApproved'[u]) => ApprovedByAdmin(u)]_vars

----------------------------------------------------------------------------
(* Alternation of a day's events *)

\* the request answered last was a check-out of u that was accepted, and
\* every event of u carries a timestamp of the current calendar day
JustCheckedOut(u) ==
  /\ resp.op = "markAttendance" /\ resp.user = u
  /\ resp.type = "check-out" /\ resp.status = 201
  /\ \A e \in BagToSet(events) :
       e.user = u => StartOfDay(e.checkInTime) = StartOfDay(now)

\* C28: per user and calendar day accepted events alternate, starting with a
\* check-in: immediately after an accepted check-out a further check-out
\* request is rejected with NoOpenCheckIn and a check-in request is
\* accepted, whatever timestamps the events carry (an offline timestamp
\* earlier than the open check-in, a check-out at the time of its check-in).
C28_StrictAlternation ==
  [][\A u \in Users :
       /\ (JustCheckedOut(u) /\ MarkStep(u, "check-out"))
            => (resp'.error = "NoOpenCheckIn" /\ events' = events)
       /\ (JustCheckedOut(u) /\ MarkStep(u, "check-in"))
            => resp'.status = 201]_vars

----------------------------------------------------------------------------
(* The failure counter under concurrent logins *)

\* C29: in every reachable state, also after authenticate calls on one
\* account have interleaved (each reads the user, then issues its counter
\* update), a stored failure counter of 5 or more implies that lockUntil is
\* set: the counter never reaches 5 on an account without a lock.
C29_CounterImpliesLock ==
  \A u \in Users : loginAttempts[u] >= MaxLoginAttempts => lockUntil[u] # NoTime

====
